---------------------------- MODULE Spec2Model ----------------------------
(***************************************************************************)
(* A model of the drone-patrol grid game of src/main.py: the Drone class,  *)
(* initialize_game, and the Flask handlers /move and /reset acting on the  *)
(* session dictionary and on the user's statistics.                        *)
(*                                                                         *)
(* Cells are pairs <<row, col>>.  Python's 0-based route_index is kept;    *)
(* a route is a sequence, so patrol_route[i] of the code is                *)
(* patrol_route[i + 1] here.                                               *)
(***************************************************************************)
EXTENDS Integers, Sequences, FiniteSets, TLC

VARIABLES
    session,      \* the Flask session dictionary of one logged-in user
    user,         \* the User row: total_tries, highest_level_completed
    level_stats,  \* the UserLevelStats rows of the user, by level_id
    response,     \* the JSON body of the last response of /move or /reset
    drone,        \* a long-lived Drone object (used by SpecDrone)
    warnings,     \* number of warnings printed by that drone's move()
    trace,        \* route_index of that drone after each move() call
    script,       \* number of moves of the scripted game sent (SpecScript)
    placing,      \* the locals of a running initialize_game (SpecInit)
    inflight,     \* the /move requests being served at once (SpecOverlap)
    twin,         \* a second game given the same moves (SpecTwin); the game
                  \* as it was initialised (SpecReplay, SpecSite)
    objects,      \* Drone objects kept alive across requests (SpecObjects)
    board,        \* new_version.py: the grid graph, with its impassable nodes
    pieces,       \* new_version.py: the list of Piece objects
    search,       \* the locals of a running get_positions_within_range
    returned,     \* what the last move_piece call returned (SpecPieces)
    recon_state,  \* new_version.py: the Recon AI state dictionary
    total_player1_pieces,  \* new_version.py: counted when the module loads
    mover,        \* game_loop: the piece whose turn it is
    seen          \* the Player1 pieces the Recon has had in its visibility

\* The state of src/test/new_version.py
new_version ==
    <<board, pieces, search, returned, recon_state, total_player1_pieces, mover,
      seen>>

vars ==
    <<session, user, level_stats, response, drone, warnings, trace, script,
      placing, inflight, twin, objects, new_version>>

-----------------------------------------------------------------------------
(* Bounds of the model *)

\* Reset is offered while fewer than MaxTries games have been finished.
MaxTries == 1

\* Longest straight patrol route given to the stand-alone drone.
MaxRouteLen == 6

\* Number of move() calls made on the stand-alone drone.
MaxCalls == 12

\* Number of /move requests each of the two connections of a client sends.
MaxServed == 2

\* Turns of a game during which /game_state is requested.
MaxQueryTurn == 2

\* Turns played in a game of the site that serves the level pages.
MaxSiteTurn == 5

\* Largest board of new_version.py: width, height, number of impassable nodes.
MaxWidth == 3
MaxHeight == 2
MaxImpassable == 2

\* Largest max_range given to get_positions_within_range.
MaxRange == 4

\* Largest movement_range of a piece.
MaxMovement == 2

-----------------------------------------------------------------------------
(* Program constants *)

\* session['max_turns'] = 200
MAX_TURNS == 200

Max(a, b) == IF a >= b THEN a ELSE b

Min(a, b) == IF a <= b THEN a ELSE b

Abs(x) == IF x < 0 THEN -x ELSE x

SetMax(S) == CHOOSE x \in S : \A y \in S : y <= x

Range(f) == {f[i] : i \in DOMAIN f}

\* DIRECTIONS
DIRECTIONS ==
    [UP |-> <<-1, 0>>, DOWN |-> <<1, 0>>, LEFT |-> <<0, -1>>,
     RIGHT |-> <<0, 1>>, STAY |-> <<0, 0>>]

\* The move strings a client sends: the five commands, two of them also in
\* lower case, and a string that is no command at all.
Moves == {"UP", "DOWN", "LEFT", "RIGHT", "STAY", "down", "stay", "jump"}

\* str.upper() on the strings of Moves
Upper(m) ==
    CASE m = "down" -> "DOWN"
      [] m = "stay" -> "STAY"
      [] m = "jump" -> "JUMP"
      [] OTHER -> m

\* DIRECTIONS.get(move.upper(), DIRECTIONS['STAY'])
MoveDir(m) ==
    IF Upper(m) \in DOMAIN DIRECTIONS THEN DIRECTIONS[Upper(m)] ELSE DIRECTIONS["STAY"]

\* is_adjacent_to_player_start(pos, player_start_pos, distance=1)
is_adjacent_to_player_start(pos, player_start_pos) ==
    Abs(pos[1] - player_start_pos[1]) + Abs(pos[2] - player_start_pos[2]) <= 1

\* 0 <= r < GRID_ROWS and 0 <= c < GRID_COLS
InGrid(pos, GRID_ROWS, GRID_COLS) ==
    /\ 0 <= pos[1] /\ pos[1] < GRID_ROWS
    /\ 0 <= pos[2] /\ pos[2] < GRID_COLS

-----------------------------------------------------------------------------
(* Drone groups and drones *)

GROUP_DEFINITIONS ==
    << [symbol |-> "T1",
        sector_shape |-> <<<<0, 0>>, <<0, 1>>, <<1, 0>>, <<1, 1>>>>,
        patrol_route |-> <<<<0, 0>>, <<0, 1>>, <<1, 1>>, <<1, 0>>>>],
       [symbol |-> "T2",
        sector_shape |-> <<<<0, 0>>, <<0, 1>>, <<0, 2>>>>,
        patrol_route |-> <<<<0, 0>>, <<0, 1>>, <<0, 2>>, <<0, 1>>>>],
       [symbol |-> "T3",
        sector_shape |-> <<<<0, 0>>, <<1, 0>>, <<2, 0>>>>,
        patrol_route |-> <<<<0, 0>>, <<1, 0>>, <<2, 0>>, <<1, 0>>>>],
       [symbol |-> "T4",
        sector_shape |-> <<<<0, 0>>, <<1, 0>>, <<1, 1>>>>,
        patrol_route |-> <<<<0, 0>>, <<1, 0>>, <<1, 1>>, <<1, 0>>>>],
       [symbol |-> "T5",
        sector_shape |-> <<<<0, 1>>, <<1, 0>>, <<1, 1>>, <<1, 2>>>>,
        patrol_route |-> <<<<1, 0>>, <<1, 1>>, <<1, 2>>, <<0, 1>>, <<1, 1>>>>] >>

\* drone_groups.get(symbol): the group of GROUP_DEFINITIONS with that symbol
GroupOf(symbol) ==
    GROUP_DEFINITIONS[CHOOSE i \in DOMAIN GROUP_DEFINITIONS :
                          GROUP_DEFINITIONS[i].symbol = symbol]

\* Drone.calculate_sector, mutated: the offsets of the shape are doubled
calculate_sector_spread(group, sector_origin) ==
    {<<sector_origin[1] + 2 * rel[1], sector_origin[2] + 2 * rel[2]>> :
        rel \in Range(group.sector_shape)}

\* Drone.calculate_sector
calculate_sector(group, sector_origin) ==
    {<<sector_origin[1] + rel[1], sector_origin[2] + rel[2]>> :
        rel \in Range(group.sector_shape)}

\* Drone.calculate_patrol_route: out-of-grid cells are clamped into the grid
calculate_patrol_route(group, sector_origin, GRID_ROWS, GRID_COLS) ==
    [i \in DOMAIN group.patrol_route |->
        LET rel == group.patrol_route[i]
            abs_pos == <<sector_origin[1] + rel[1], sector_origin[2] + rel[2]>>
        IN  IF InGrid(abs_pos, GRID_ROWS, GRID_COLS)
            THEN abs_pos
            ELSE <<Max(0, Min(GRID_ROWS - 1, abs_pos[1])),
                   Max(0, Min(GRID_COLS - 1, abs_pos[2]))>>]

\* Drone.__init__
Drone(group, sector_origin, GRID_ROWS, GRID_COLS) ==
    LET route == calculate_patrol_route(group, sector_origin, GRID_ROWS, GRID_COLS)
    IN  [symbol |-> group.symbol,
         sector_origin |-> sector_origin,
         sector |-> calculate_sector(group, sector_origin),
         patrol_route |-> route,
         route_length |-> Len(route),
         route_index |-> 0,
         direction |-> 1,
         position |-> route[1]]

\* Whether Drone.move prints its warning (and returns without moving)
Drone_warns(d) == d.route_length <= 1

\* Drone.move, mutated: the index wraps around at the end of the route
Drone_move_wrap(d) ==
    IF d.route_length <= 1 THEN d
    ELSE LET next_index == (d.route_index + 1) % d.route_length
         IN  [d EXCEPT !.route_index = next_index,
                       !.position = d.patrol_route[next_index + 1]]

\* Drone.move
Drone_move(d) ==
    IF d.route_length <= 1 THEN d
    ELSE LET first == d.route_index + d.direction
             reverse == first >= d.route_length \/ first < 0
             direction == IF reverse THEN -d.direction ELSE d.direction
             next_index == IF reverse THEN d.route_index + direction ELSE first
         IN  [d EXCEPT !.direction = direction,
                       !.route_index = next_index,
                       !.position = d.patrol_route[next_index + 1]]

\* draw_grid: the symbol drawn in every cell of the grid.  The end position
\* is drawn first, then the drones that are not on the player's cell ('*'
\* where drones of several symbols stand), then the player.
draw_grid(player_pos, end_pos, drones, GRID_ROWS, GRID_COLS) ==
    [pos \in (0..(GRID_ROWS - 1)) \X (0..(GRID_COLS - 1)) |->
        LET symbols == {drones[i].symbol :
                           i \in {j \in DOMAIN drones :
                                     /\ drones[j].position = pos
                                     /\ drones[j].position # player_pos}}
        IN  IF pos = player_pos THEN "P"
            ELSE IF Cardinality(symbols) = 1 THEN CHOOSE s \in symbols : TRUE
            ELSE IF symbols # {} THEN "*"
            ELSE IF pos = end_pos THEN "X"
            ELSE "."]

\* is_collision
is_collision(player_pos, drones) ==
    \E i \in DOMAIN drones : player_pos = drones[i].position

-----------------------------------------------------------------------------
(* Levels (levels.json) and game initialisation *)

\* LEVELS: the level configurations the model plays.  Levels "1" and "6"
\* start the player inside the grid; the others use a start box on each of
\* the four sides of the grid.  Level "6" asks for one drone of each group on
\* a grid that has room for one drone only, whichever group it is of.
LEVELS ==
    << [id |-> "1", grid_rows |-> 4, grid_cols |-> 4,
        player_start_pos |-> <<0, 0>>, end_pos |-> <<3, 3>>,
        num_drones |-> 2, num_drone_groups |-> 5, random_seed |-> "seed"],
       [id |-> "2", grid_rows |-> 3, grid_cols |-> 3,
        player_start_pos |-> <<-1, 1>>, end_pos |-> <<2, 2>>,
        num_drones |-> 1, num_drone_groups |-> 5, random_seed |-> "seed"],
       [id |-> "3", grid_rows |-> 3, grid_cols |-> 2,
        player_start_pos |-> <<3, 0>>, end_pos |-> <<0, 0>>,
        num_drones |-> 1, num_drone_groups |-> 5, random_seed |-> "seed"],
       [id |-> "4", grid_rows |-> 2, grid_cols |-> 3,
        player_start_pos |-> <<0, -1>>, end_pos |-> <<1, 2>>,
        num_drones |-> 1, num_drone_groups |-> 5, random_seed |-> "None"],
       [id |-> "5", grid_rows |-> 2, grid_cols |-> 3,
        player_start_pos |-> <<1, 3>>, end_pos |-> <<0, 0>>,
        num_drones |-> 1, num_drone_groups |-> 5, random_seed |-> "seed"],
       [id |-> "6", grid_rows |-> 3, grid_cols |-> 3,
        player_start_pos |-> <<0, 0>>, end_pos |-> <<2, 2>>,
        num_drones |-> 5, num_drone_groups |-> 5, random_seed |-> "seed"] >>

LevelIds == {LEVELS[i].id : i \in DOMAIN LEVELS}

\* drones_per_group: NUM_DRONES // NUM_DRONE_GROUPS each, the remainder
\* spread over the first groups
drones_per_group(NUM_DRONES, NUM_DRONE_GROUPS) ==
    [i \in 1..NUM_DRONE_GROUPS |->
        (NUM_DRONES \div NUM_DRONE_GROUPS)
        + (IF i <= NUM_DRONES % NUM_DRONE_GROUPS THEN 1 ELSE 0)]

\* initialize_game raises (ZeroDivisionError, or IndexError on
\* drones_per_group[i]) unless there is a count for every group
initialize_game_raises(NUM_DRONES, NUM_DRONE_GROUPS) ==
    NUM_DRONE_GROUPS < Len(GROUP_DEFINITIONS)

\* The origins drawn, mutated: the extent of the shape is not subtracted
OriginCandidates_wide(group, GRID_ROWS, GRID_COLS) ==
    (0..(GRID_ROWS - 1)) \X (0..(GRID_COLS - 1))

\* The sector origins random.randint can draw for a group
OriginCandidates(group, GRID_ROWS, GRID_COLS) ==
    LET max_row == GRID_ROWS - SetMax({rel[1] : rel \in Range(group.sector_shape)})
        max_col == GRID_COLS - SetMax({rel[2] : rel \in Range(group.sector_shape)})
    IN  IF max_row <= 0 \/ max_col <= 0 THEN {}
        ELSE (0..(max_row - 1)) \X (0..(max_col - 1))

\* The acceptance test, mutated: overlap with assigned sectors is not tested
SectorAccepted_overlap(group, sector_origin, assigned_positions, PLAYER_START_POS) ==
    \A pos \in calculate_sector(group, sector_origin) :
        ~is_adjacent_to_player_start(pos, PLAYER_START_POS)

\* The test that accepts a drawn sector origin
SectorAccepted(group, sector_origin, assigned_positions, PLAYER_START_POS) ==
    LET sector == calculate_sector(group, sector_origin)
    IN  /\ sector \cap assigned_positions = {}
        /\ \A pos \in sector : ~is_adjacent_to_player_start(pos, PLAYER_START_POS)

\* The group index of each requested drone, in the order of placement.
\* Only the groups that have a count in drones_per_group are reached.
PlacementOrder(NUM_DRONES, NUM_DRONE_GROUPS) ==
    LET per == drones_per_group(NUM_DRONES, NUM_DRONE_GROUPS)
        F[i \in 0..Len(GROUP_DEFINITIONS)] ==
            IF i = 0 THEN <<>>
            ELSE IF i > NUM_DRONE_GROUPS THEN F[i - 1]
            ELSE F[i - 1] \o [k \in 1..per[i] |-> i]
    IN  F[Len(GROUP_DEFINITIONS)]

\* The placement loop of initialize_game from the k-th requested drone on:
\* the set of drone lists it can return.  The random draws are a choice
\* among the candidate origins; a drone is skipped when every attempt can
\* fail (some candidate is refused, or there is no candidate).
RECURSIVE PlaceFrom(_, _, _, _, _)
PlaceFrom(order, k, assigned_positions, drones, level) ==
    IF k > Len(order) THEN {drones}
    ELSE LET group == GROUP_DEFINITIONS[order[k]]
             cands == OriginCandidates(group, level.grid_rows, level.grid_cols)
             good == {o \in cands :
                        SectorAccepted(group, o, assigned_positions,
                                       level.player_start_pos)}
             placed == UNION {PlaceFrom(order, k + 1,
                                  assigned_positions \cup calculate_sector(group, o),
                                  Append(drones, Drone(group, o, level.grid_rows,
                                                       level.grid_cols)),
                                  level) : o \in good}
             skipped == IF good = cands /\ cands # {} THEN {}
                        ELSE PlaceFrom(order, k + 1, assigned_positions, drones, level)
         IN  placed \cup skipped

\* initialize_game: the drone lists it can return for a level
initialize_game(level) ==
    PlaceFrom(PlacementOrder(level.num_drones, level.num_drone_groups), 1, {},
              <<>>, level)

\* The list of dicts stored in session['drones']
SessionDrones(drones) ==
    [i \in DOMAIN drones |->
        [symbol |-> drones[i].symbol,
         position |-> drones[i].position,
         route_index |-> drones[i].route_index,
         direction |-> drones[i].direction,
         sector_origin |-> drones[i].sector_origin]]

\* initialize_web_game, mutated: session['turn'] is left as it was
initialize_web_game_unturned(sess, drones) ==
    LET level_config == sess.level_config
    IN  [sess EXCEPT !.player_pos = level_config.player_start_pos,
                     !.end_pos = level_config.end_pos,
                     !.grid_rows = level_config.grid_rows,
                     !.grid_cols = level_config.grid_cols,
                     !.player_start_pos = level_config.player_start_pos,
                     !.max_turns = MAX_TURNS,
                     !.drones = SessionDrones(drones),
                     !.game_over = FALSE,
                     !.message = "",
                     !.initialized = TRUE]

\* initialize_web_game: the session after it, given what initialize_game
\* returned.  session['won'] is not touched.
initialize_web_game(sess, drones) ==
    LET level_config == sess.level_config
    IN  [sess EXCEPT !.player_pos = level_config.player_start_pos,
                     !.end_pos = level_config.end_pos,
                     !.grid_rows = level_config.grid_rows,
                     !.grid_cols = level_config.grid_cols,
                     !.player_start_pos = level_config.player_start_pos,
                     !.turn = 0,
                     !.max_turns = MAX_TURNS,
                     !.drones = SessionDrones(drones),
                     !.game_over = FALSE,
                     !.message = "",
                     !.initialized = TRUE]

\* Reconstruct drones, mutated: the stored direction is not restored
ReconstructDrones_forward(sess) ==
    [i \in DOMAIN sess.drones |->
        LET drone_data == sess.drones[i]
            d == Drone(GroupOf(drone_data.symbol), drone_data.sector_origin,
                       sess.grid_rows, sess.grid_cols)
        IN  [d EXCEPT !.position = drone_data.position,
                      !.route_index = drone_data.route_index]]

\* Reconstruct drones: the Drone objects /move and /game_state rebuild
\* from session['drones']
ReconstructDrones(sess) ==
    [i \in DOMAIN sess.drones |->
        LET drone_data == sess.drones[i]
            d == Drone(GroupOf(drone_data.symbol), drone_data.sector_origin,
                       sess.grid_rows, sess.grid_cols)
        IN  [d EXCEPT !.position = drone_data.position,
                      !.route_index = drone_data.route_index,
                      !.direction = drone_data.direction]]

-----------------------------------------------------------------------------
(* User statistics *)

\* Index of a level id in LEVELS (0-based), -1 when it is no level
LevelIndex(level_id) ==
    IF level_id \in LevelIds
    THEN (CHOOSE i \in DOMAIN LEVELS : LEVELS[i].id = level_id) - 1
    ELSE -1

\* update_user_stats(won), mutated: the try is counted twice in the user row
update_user_stats_twice(sess, usr, stats, won) ==
    LET level_id == sess.level_id
        row == stats[level_id]
        counted == IF row.exists
                   THEN [row EXCEPT !.tries = row.tries + 1]
                   ELSE [exists |-> TRUE, tries |-> 1, completed |-> FALSE]
        new_row == IF won THEN [counted EXCEPT !.completed = TRUE] ELSE counted
        new_user == [usr EXCEPT !.total_tries = usr.total_tries + 2]
    IN  [user |-> new_user,
         level_stats |-> [stats EXCEPT ![level_id] = new_row],
         updated_stats |-> [total_tries |-> new_user.total_tries,
                            highest_level_completed |-> "None",
                            level_tries |-> new_row.tries]]

\* update_user_stats(won): the user row, the level rows and the dict returned
update_user_stats(sess, usr, stats, won) ==
    LET level_id == sess.level_id
        row == stats[level_id]
        counted == IF row.exists
                   THEN [row EXCEPT !.tries = row.tries + 1]
                   ELSE [exists |-> TRUE, tries |-> 1, completed |-> FALSE]
        new_row == IF won THEN [counted EXCEPT !.completed = TRUE] ELSE counted
        highest_level_index ==
            IF usr.highest_level_completed # ""
            THEN LevelIndex(usr.highest_level_completed)
            ELSE -1
        highest == IF won /\ LevelIndex(level_id) > highest_level_index
                   THEN level_id
                   ELSE usr.highest_level_completed
        new_user == [total_tries |-> usr.total_tries + 1,
                     highest_level_completed |-> highest]
    IN  [user |-> new_user,
         level_stats |-> [stats EXCEPT ![level_id] = new_row],
         updated_stats |-> [total_tries |-> new_user.total_tries,
                            highest_level_completed |->
                                IF highest = "" THEN "None" ELSE highest,
                            level_tries |-> new_row.tries]]

-----------------------------------------------------------------------------
(* The /move handler *)

MSG_INVALID_FROM_START == "Invalid move from the start position."

MSG_INVALID_INTO_START == "Invalid move into the start position."

MSG_OUT_OF_BOUNDS == "Move out of bounds. Try again."

MSG_CAUGHT ==
    "A gunshot rings out in the distnace. You turn the radio frequency preemptively."

MSG_WON == "You've reached your target."

MSG_TIMEOUT ==
    "Drone tracking goes dark. There's nothing more you can do to help."

MSG_SUCCESS == "Move successful"

\* is_valid_move_from_start_box
is_valid_move_from_start_box(move, PLAYER_START_POS, GRID_ROWS, GRID_COLS) ==
    IF move = "STAY" THEN TRUE
    ELSE IF PLAYER_START_POS[1] = -1 THEN move = "DOWN"
    ELSE IF PLAYER_START_POS[1] = GRID_ROWS THEN move = "UP"
    ELSE IF PLAYER_START_POS[2] = -1 THEN move = "RIGHT"
    ELSE IF PLAYER_START_POS[2] = GRID_COLS THEN move = "LEFT"
    ELSE FALSE

\* Adjusted boundary checks: -1 <= new_r < GRID_ROWS and -1 <= new_c < GRID_COLS
WithinAdjustedBounds(pos, GRID_ROWS, GRID_COLS) ==
    /\ -1 <= pos[1] /\ pos[1] < GRID_ROWS
    /\ -1 <= pos[2] /\ pos[2] < GRID_COLS

\* A response body.  keys holds the keys of the JSON object beyond 'message'
\* and 'game_over'; the values of absent keys are empty.
Reply(message, game_over, keys, player_move, drone_moves, updated_stats) ==
    [message |-> message, game_over |-> game_over, keys |-> keys,
     player_move |-> player_move, drone_moves |-> drone_moves,
     updated_stats |-> updated_stats]

ShortReply(message, game_over) == Reply(message, game_over, {}, <<>>, <<>>, <<>>)

\* The response before any request was served
NoReply == ShortReply("", FALSE)

\* 'drone_moves': symbol, from and to of each drone
DroneMoves(before, after) ==
    [i \in DOMAIN before |->
        [symbol |-> before[i].symbol, from |-> before[i].position,
         to |-> after[i].position]]

\* The "Move drones" loop, mutated: move() is called twice on each drone
MoveDrones_twice(drones) ==
    [i \in DOMAIN drones |-> Drone_move(Drone_move(drones[i]))]

\* The "Move drones" loop of /move
MoveDrones(drones) == [i \in DOMAIN drones |-> Drone_move(drones[i])]

\* A rejected move, mutated: the rejection consumes a turn
RejectedSession_turn(sess, message) ==
    [sess EXCEPT !.message = message, !.turn = sess.turn + 1]

\* The session after a rejected move: only the message is set
RejectedSession(sess, message) == [sess EXCEPT !.message = message]

\* First collision check, mutated: made against the drones' next positions
CollisionAfterPlayerMove_late(player_pos, drones, GRID_ROWS, GRID_COLS) ==
    /\ InGrid(player_pos, GRID_ROWS, GRID_COLS)
    /\ is_collision(player_pos, MoveDrones(drones))

\* "Check for collision after player's move"
CollisionAfterPlayerMove(player_pos, drones, GRID_ROWS, GRID_COLS) ==
    /\ InGrid(player_pos, GRID_ROWS, GRID_COLS)
    /\ is_collision(player_pos, drones)

\* Second collision check, mutated: it is not made
CollisionAfterDronesMove_never(player_pos, drones, GRID_ROWS, GRID_COLS) == FALSE

\* "Check for collision after drones' move"
CollisionAfterDronesMove(player_pos, drones, GRID_ROWS, GRID_COLS) ==
    /\ InGrid(player_pos, GRID_ROWS, GRID_COLS)
    /\ is_collision(player_pos, drones)

\* The session of a catch by the first check: the drones are not stored
CaughtBeforeSession(moved_sess) ==
    [moved_sess EXCEPT !.game_over = TRUE, !.won = "False", !.message = MSG_CAUGHT]

\* Catch by the second check, mutated: the advanced drones are not stored
CaughtAfterSession_stale(moved_sess, advanced) ==
    [moved_sess EXCEPT !.game_over = TRUE, !.won = "False", !.message = MSG_CAUGHT]

\* The session of a catch by the second check
CaughtAfterSession(moved_sess, advanced) ==
    [moved_sess EXCEPT !.game_over = TRUE, !.won = "False", !.message = MSG_CAUGHT,
                       !.drones = SessionDrones(advanced)]

\* Goal check, mutated: made on the position stored before the move
ReachedEnd_stale(sess, player_pos) == sess.player_pos = sess.end_pos

\* Goal check, mutated: the goal does not count on the last turn
ReachedEnd_intime(sess, player_pos) ==
    player_pos = sess.end_pos /\ sess.turn + 1 < sess.max_turns

\* "Check if player has reached the end"
ReachedEnd(sess, player_pos) == player_pos = sess.end_pos

\* Reaching the end, mutated: the turn is counted first
WonSession_counted(moved_sess, advanced) ==
    [moved_sess EXCEPT !.game_over = TRUE, !.won = "True", !.message = MSG_WON,
                       !.drones = SessionDrones(advanced),
                       !.turn = moved_sess.turn + 1]

\* The session when the end is reached
WonSession(moved_sess, advanced) ==
    [moved_sess EXCEPT !.game_over = TRUE, !.won = "True", !.message = MSG_WON,
                       !.drones = SessionDrones(advanced)]

\* Storing the turn, mutated: the turn counter is not incremented
TurnedSession_unturned(moved_sess, advanced) ==
    [moved_sess EXCEPT !.drones = SessionDrones(advanced)]

\* "Update drones in session", "Increment turn"
TurnedSession(moved_sess, advanced) ==
    [moved_sess EXCEPT !.drones = SessionDrones(advanced),
                       !.turn = moved_sess.turn + 1]

\* Turn-limit test, mutated: the limit itself is still allowed
TurnLimitReached_late(sess) == sess.turn > sess.max_turns

\* session['turn'] >= session.get('max_turns', 200)
TurnLimitReached(sess) == sess.turn >= sess.max_turns

\* The game_over test, mutated: the flag is ignored
GameIsOver_never(sess) == FALSE

\* session.get('game_over', False)
GameIsOver(sess) == sess.game_over

\* The outcome of /move on session sess, user row usr and level rows stats
\* for the request body {'move': m}: the new session, rows and the response
move(sess, usr, stats, m) ==
    IF GameIsOver(sess)
    THEN [session |-> sess, user |-> usr, level_stats |-> stats,
          response |-> ShortReply(sess.message, TRUE)]
    ELSE
    LET GRID_ROWS == sess.grid_rows
        GRID_COLS == sess.grid_cols
        PLAYER_START_POS == sess.player_start_pos
        move_dir == MoveDir(m)
        old_player_pos == sess.player_pos
        new_pos == <<old_player_pos[1] + move_dir[1], old_player_pos[2] + move_dir[2]>>
        valid == is_valid_move_from_start_box(m, PLAYER_START_POS, GRID_ROWS, GRID_COLS)
        Rejected(message) ==
            [session |-> RejectedSession(sess, message),
             user |-> usr, level_stats |-> stats,
             response |-> ShortReply(message, FALSE)]
    IN
    IF old_player_pos = PLAYER_START_POS /\ ~valid
    THEN Rejected(MSG_INVALID_FROM_START)
    ELSE IF new_pos = PLAYER_START_POS /\ ~valid
    THEN Rejected(MSG_INVALID_INTO_START)
    ELSE IF ~WithinAdjustedBounds(new_pos, GRID_ROWS, GRID_COLS)
    THEN Rejected(MSG_OUT_OF_BOUNDS)
    ELSE
    LET moved_sess == [sess EXCEPT !.player_pos = new_pos]
        drones == ReconstructDrones(sess)
        player_move == <<[from |-> old_player_pos, to |-> new_pos]>>
        lost == update_user_stats(sess, usr, stats, FALSE)
        victory == update_user_stats(sess, usr, stats, TRUE)
        advanced == MoveDrones(drones)
        drone_moves == DroneMoves(drones, advanced)
        turned == TurnedSession(moved_sess, advanced)
        full_keys == {"player_move", "drone_moves", "start_box", "player_pos",
                      "updated_stats"}
    IN
    IF CollisionAfterPlayerMove(new_pos, drones, GRID_ROWS, GRID_COLS)
    THEN [session |-> CaughtBeforeSession(moved_sess),
          user |-> lost.user, level_stats |-> lost.level_stats,
          response |-> Reply(MSG_CAUGHT, TRUE, full_keys \ {"drone_moves"},
                             player_move, <<>>, <<lost.updated_stats>>)]
    ELSE IF CollisionAfterDronesMove(new_pos, advanced, GRID_ROWS, GRID_COLS)
    THEN [session |-> CaughtAfterSession(moved_sess, advanced),
          user |-> lost.user, level_stats |-> lost.level_stats,
          response |-> Reply(MSG_CAUGHT, TRUE, full_keys,
                             player_move, drone_moves, <<lost.updated_stats>>)]
    ELSE IF ReachedEnd(sess, new_pos)
    THEN [session |-> WonSession(moved_sess, advanced),
          user |-> victory.user, level_stats |-> victory.level_stats,
          response |-> Reply(MSG_WON, TRUE, full_keys,
                             player_move, drone_moves, <<victory.updated_stats>>)]
    ELSE IF TurnLimitReached(turned)
    THEN [session |-> [turned EXCEPT !.game_over = TRUE, !.won = "False",
                                     !.message = MSG_TIMEOUT],
          user |-> lost.user, level_stats |-> lost.level_stats,
          response |-> Reply(MSG_TIMEOUT, TRUE, full_keys,
                             player_move, drone_moves, <<lost.updated_stats>>)]
    ELSE [session |-> [turned EXCEPT !.message = ""],
          user |-> usr, level_stats |-> stats,
          response |-> Reply(MSG_SUCCESS, FALSE, full_keys \ {"updated_stats"},
                             player_move, drone_moves, <<>>)]

-----------------------------------------------------------------------------
(* The /reset handler *)

MSG_RESET == "Game has been reset."

\* initialize_game run again, mutated: the seed is not used
ReplayedDrones_unseeded(sess) == initialize_game(sess.level_config)

\* What initialize_game returns when /reset runs it again.  With a seed,
\* random.seed(RANDOM_SEED) replays the draws of the first initialisation of
\* this level, so the same sectors are chosen; without one the draws are free.
ReplayedDrones(sess) ==
    IF sess.level_config.random_seed # "None"
    THEN {[i \in DOMAIN sess.drones |->
              Drone(GroupOf(sess.drones[i].symbol), sess.drones[i].sector_origin,
                    sess.level_config.grid_rows, sess.level_config.grid_cols)]}
    ELSE initialize_game(sess.level_config)

\* The outcome of /reset, given what initialize_game returned
reset(sess, usr, stats, drones) ==
    LET row == stats[sess.level_id]
        updated_stats ==
            [total_tries |-> usr.total_tries,
             highest_level_completed |->
                 IF usr.highest_level_completed = "" THEN "None"
                 ELSE usr.highest_level_completed,
             level_tries |-> IF row.exists THEN row.tries ELSE 0]
    IN  [session |-> initialize_web_game(sess, drones),
         user |-> usr, level_stats |-> stats,
         response |-> Reply(MSG_RESET, FALSE, {"updated_stats"}, <<>>, <<>>,
                            <<updated_stats>>)]

-----------------------------------------------------------------------------
(* src/test/new_version.py: the board, the pieces and the Recon *)

\* create_board: a width x height grid graph; an impassable node of the
\* board is marked and loses its edges
create_board(width, height, impassable_nodes) ==
    [width |-> width, height |-> height,
     impassable |-> {position \in impassable_nodes :
                        /\ position[1] \in 0 .. width - 1
                        /\ position[2] \in 0 .. height - 1}]

\* board.nodes
Nodes(b) == (0 .. b.width - 1) \X (0 .. b.height - 1)

\* board.nodes[n].get('passable', True)
passable(b, n) == n \notin b.impassable

\* board.neighbors(n): the nodes n shares an edge with, as a list
neighbors(b, n) ==
    LET around == << <<n[1] - 1, n[2]>>, <<n[1] + 1, n[2]>>,
                     <<n[1], n[2] - 1>>, <<n[1], n[2] + 1>> >>
        edge(m) == m \in Nodes(b) /\ passable(b, n) /\ passable(b, m)
    IN  SelectSeq(around, edge)

\* A set of nodes and the nodes one edge away from it
Grow(b, S) == S \cup UNION {Range(neighbors(b, n)) : n \in S}

\* The number of edges from a source to a node, S being the nodes k - 1 edges
\* or fewer away from the source and T those k edges or fewer away; -1 when
\* no path leads there
RECURSIVE PathLength(_, _, _, _, _)
PathLength(b, S, T, to, k) ==
    IF to \in T THEN k
    ELSE IF T = S THEN -1
    ELSE PathLength(b, T, Grow(b, T), to, k + 1)

\* len(nx.shortest_path(board, from, to)) - 1, and -1 where it raises
\* NetworkXNoPath
shortest_path_length(b, from, to) == PathLength(b, {}, {from}, to, 0)

\* The locals of get_positions_within_range before its loop
StartSearch(position, max_range) ==
    [position |-> position, max_range |-> max_range,
     queue |-> << <<position, 0>> >>, visited |-> {}, positions |-> {},
     pc |-> "loop"]

\* One iteration of the while loop, mutated: a node at distance max_range is
\* skipped too
SearchIteration_short(b, s) ==
    LET current_position == s.queue[1][1]
        distance == s.queue[1][2]
        visited == s.visited \cup {current_position}
        fresh(n) == n \notin visited /\ passable(b, n)
        found == SelectSeq(neighbors(b, current_position), fresh)
    IN  IF distance >= s.max_range /\ distance > 0
        THEN [s EXCEPT !.queue = Tail(s.queue)]
        ELSE [s EXCEPT !.queue = Tail(s.queue)
                           \o [i \in 1 .. Len(found) |-> <<found[i], distance + 1>>],
                       !.visited = visited,
                       !.positions = IF current_position # s.position
                                     THEN @ \cup {current_position}
                                     ELSE @]

\* One iteration of the while loop of get_positions_within_range
SearchIteration(b, s) ==
    LET current_position == s.queue[1][1]
        distance == s.queue[1][2]
        visited == s.visited \cup {current_position}
        fresh(n) == n \notin visited /\ passable(b, n)
        found == SelectSeq(neighbors(b, current_position), fresh)
    IN  IF distance > s.max_range
        THEN [s EXCEPT !.queue = Tail(s.queue)]
        ELSE [s EXCEPT !.queue = Tail(s.queue)
                           \o [i \in 1 .. Len(found) |-> <<found[i], distance + 1>>],
                       !.visited = visited,
                       !.positions = IF current_position # s.position
                                     THEN @ \cup {current_position}
                                     ELSE @]

\* The while loop run until the queue is empty
RECURSIVE RunSearch(_, _)
RunSearch(b, s) ==
    IF s.queue = <<>> THEN s ELSE RunSearch(b, SearchIteration(b, s))

\* get_positions_within_range(position, max_range)
get_positions_within_range(b, position, max_range) ==
    RunSearch(b, StartSearch(position, max_range)).positions

\* is_position_occupied(position)
is_position_occupied(ps, position) ==
    \E i \in DOMAIN ps : ps[i].position = position

\* if len(path) - 1 <= piece.movement_range, unless NetworkXNoPath was raised
WithinMovement(length, movement_range) ==
    length # -1 /\ length <= movement_range

\* move_piece, mutated: the occupied test is left out
move_piece_onto(b, ps, i, target_position) ==
    LET length == shortest_path_length(b, ps[i].position, target_position)
    IN  IF ~passable(b, target_position)
        THEN [pieces |-> ps, returned |-> FALSE]
        ELSE IF WithinMovement(length, ps[i].movement_range)
        THEN [pieces |-> [ps EXCEPT ![i].position = target_position],
              returned |-> TRUE]
        ELSE [pieces |-> ps, returned |-> FALSE]

\* move_piece(piece, target_position), piece being pieces[i]: the list of
\* pieces after the call and what the call returned
move_piece(b, ps, i, target_position) ==
    LET length == shortest_path_length(b, ps[i].position, target_position)
    IN  IF ~passable(b, target_position)
        THEN [pieces |-> ps, returned |-> FALSE]
        ELSE IF is_position_occupied(ps, target_position)
        THEN [pieces |-> ps, returned |-> FALSE]
        ELSE IF WithinMovement(length, ps[i].movement_range)
        THEN [pieces |-> [ps EXCEPT ![i].position = target_position],
              returned |-> TRUE]
        ELSE [pieces |-> ps, returned |-> FALSE]

\* recon_state as the module creates it
NewReconState ==
    [visited_positions |-> {}, discovered_player1_positions |-> {},
     search_mode |-> "explore", search_center |-> "None",
     search_attempts |-> 0]

\* No board game is played
NoBoardGame ==
    /\ board = create_board(0, 0, {})
    /\ pieces = <<>>
    /\ search = [StartSearch(<<0, 0>>, 0) EXCEPT !.pc = "idle"]
    /\ returned = FALSE
    /\ recon_state = NewReconState
    /\ total_player1_pieces = 0
    /\ mover = 0
    /\ seen = {}

-----------------------------------------------------------------------------

(* The game: one session, from /start_game and /game on *)

\* The session after /start_game/<level_id>, before the game is initialised
StartedSession(level) ==
    [level_config |-> level, level_id |-> level.id, initialized |-> FALSE,
     player_pos |-> <<0, 0>>, end_pos |-> <<0, 0>>, grid_rows |-> 0,
     grid_cols |-> 0, player_start_pos |-> <<0, 0>>, turn |-> 0,
     max_turns |-> 0, drones |-> <<>>, game_over |-> FALSE, message |-> "",
     won |-> "None"]

\* The user's rows before the first game
NewUser == [total_tries |-> 0, highest_level_completed |-> ""]

NoLevelStats ==
    [id \in LevelIds \cup {"unknown"} |->
        [exists |-> FALSE, tries |-> 0, completed |-> FALSE]]

\* The stand-alone drone is not part of the game
NoDrone == Drone(GROUP_DEFINITIONS[1], <<0, 0>>, 2, 2)

\* No initialize_game is running
NoPlacing ==
    [pc |-> "idle", level |-> LEVELS[1], k |-> 0, attempt |-> 0,
     assigned_positions |-> {}, drones |-> <<>>, warned |-> 0]

\* No /move request is being served
NoRequests == <<>>

\* No second game is played
NoTwin == <<>>

\* No Drone object outlives its request
NoObjects == <<>>

\* The sessions /game leaves after initialising level number i
GameSessions(i) ==
    IF initialize_game_raises(LEVELS[i].num_drones, LEVELS[i].num_drone_groups)
    THEN {}
    ELSE {initialize_web_game(StartedSession(LEVELS[i]), drones) :
             drones \in initialize_game(LEVELS[i])}

Init ==
    /\ session \in UNION {GameSessions(i) : i \in DOMAIN LEVELS}
    /\ user = NewUser
    /\ level_stats = NoLevelStats
    /\ response = NoReply
    /\ drone = NoDrone
    /\ warnings = 0
    /\ trace = <<>>
    /\ script = 0
    /\ placing = NoPlacing
    /\ inflight = NoRequests
    /\ twin = NoTwin
    /\ objects = NoObjects
    /\ NoBoardGame

\* A request is served: the handler's outcome r becomes the state
Serve(r) ==
    /\ session' = r.session
    /\ user' = r.user
    /\ level_stats' = r.level_stats
    /\ response' = r.response

\* POST /move with body {'move': m}
Move(m) ==
    /\ Serve(move(session, user, level_stats, m))
    /\ UNCHANGED <<drone, warnings, trace, script, placing, inflight, twin,
                   objects,
                   new_version>>

\* POST /reset
Reset ==
    /\ user.total_tries < MaxTries
    /\ \E drones \in ReplayedDrones(session) :
         Serve(reset(session, user, level_stats, drones))
    /\ UNCHANGED <<drone, warnings, trace, script, placing, inflight, twin,
                   objects,
                   new_version>>

Next ==
    \/ \E m \in Moves : Move(m)
    \/ Reset

Spec == Init /\ [][Next]_vars

-----------------------------------------------------------------------------
(* A long-lived Drone object on which move() is called repeatedly *)

\* A group whose sector and patrol route are a straight line of n cells
LineGroup(n) ==
    [symbol |-> "L",
     sector_shape |-> [i \in 1..n |-> <<0, i - 1>>],
     patrol_route |-> [i \in 1..n |-> <<0, i - 1>>]]

\* The drones of the five groups at every origin of a 3x3 grid (routes
\* clamped at the border), and line drones of every length up to MaxRouteLen
StandaloneDrones ==
    {Drone(GROUP_DEFINITIONS[g], o, 3, 3) :
        g \in DOMAIN GROUP_DEFINITIONS, o \in (0..2) \X (0..2)}
    \cup {Drone(LineGroup(n), <<1, 1>>, 3, n + 1) : n \in 1..MaxRouteLen}

InitDrone ==
    /\ session = StartedSession(LEVELS[1])
    /\ user = NewUser
    /\ level_stats = NoLevelStats
    /\ response = NoReply
    /\ drone \in StandaloneDrones
    /\ warnings = 0
    /\ trace = <<drone.route_index>>
    /\ script = 0
    /\ placing = NoPlacing
    /\ inflight = NoRequests
    /\ twin = NoTwin
    /\ objects = NoObjects
    /\ NoBoardGame

\* One call of drone.move()
DroneMoveCall ==
    /\ Len(trace) <= MaxCalls
    /\ drone' = Drone_move(drone)
    /\ warnings' = IF Drone_warns(drone) THEN warnings + 1 ELSE warnings
    /\ trace' = Append(trace, drone'.route_index)
    /\ UNCHANGED <<session, user, level_stats, response, script, placing,
                   inflight, twin, objects,
                   new_version>>

NextDrone == DroneMoveCall

SpecDrone == InitDrone /\ [][NextDrone]_vars

-----------------------------------------------------------------------------
(* The scripted game of the end-to-end scenario *)

\* The move sequence of the scenario
SCRIPT == <<"RIGHT", "RIGHT", "DOWN", "DOWN", "DOWN", "RIGHT">>

\* Level "1" is the scenario's fixture: a 4x4 grid, the player starting at
\* (0,0), the goal at (3,3), two drones
InitScript ==
    /\ session \in GameSessions(1)
    /\ user = NewUser
    /\ level_stats = NoLevelStats
    /\ response = NoReply
    /\ drone = NoDrone
    /\ warnings = 0
    /\ trace = <<>>
    /\ script = 0
    /\ placing = NoPlacing
    /\ inflight = NoRequests
    /\ twin = NoTwin
    /\ objects = NoObjects
    /\ NoBoardGame

\* The next move of the script is sent to /move
ScriptedMove ==
    /\ script < Len(SCRIPT)
    /\ Serve(move(session, user, level_stats, SCRIPT[script + 1]))
    /\ script' = script + 1
    /\ UNCHANGED <<drone, warnings, trace, placing, inflight, twin, objects,
                   new_version>>

NextScript == ScriptedMove

SpecScript == InitScript /\ [][NextScript]_vars

-----------------------------------------------------------------------------
(* initialize_game step by step: one step per placement attempt *)

\* for attempt in range(100)
PLACEMENT_ATTEMPTS == 100

\* A level that asks for one drone of each group on a 4x4 grid, which has
\* room for three of them at most
CROWDED_LEVEL ==
    [id |-> "7", grid_rows |-> 4, grid_cols |-> 4,
     player_start_pos |-> <<0, 0>>, end_pos |-> <<3, 3>>,
     num_drones |-> 5, num_drone_groups |-> 5, random_seed |-> "seed"]

\* The levels whose initialisation is followed
PlacementLevels == Range(LEVELS) \cup {CROWDED_LEVEL}

\* The locals of initialize_game when its placement loop is entered
StartPlacing(level) ==
    [pc |-> "placing", level |-> level, k |-> 1, attempt |-> 0,
     assigned_positions |-> {}, drones |-> <<>>, warned |-> 0]

\* The group index of each requested drone of the level being initialised
PlacingOrder(p) == PlacementOrder(p.level.num_drones, p.level.num_drone_groups)

\* The group of the drone being placed
PlacingGroup(p) == GROUP_DEFINITIONS[PlacingOrder(p)[p.k]]

\* An attempt that fails: the shape does not fit the grid ('continue'), or
\* the drawn sector is refused
FailedAttempt(p) == [p EXCEPT !.attempt = p.attempt + 1]

\* An attempt that succeeds at sector_origin: the sector is assigned, the
\* drone is created and appended, and the attempts of this drone end ('break')
PlacedDrone(p, sector_origin) ==
    [p EXCEPT !.assigned_positions =
                  p.assigned_positions
                  \cup calculate_sector(PlacingGroup(p), sector_origin),
              !.drones = Append(p.drones,
                                Drone(PlacingGroup(p), sector_origin,
                                      p.level.grid_rows, p.level.grid_cols)),
              !.k = p.k + 1,
              !.attempt = 0]

\* Giving up, mutated: the remaining drones are not attempted
SkippedDrone_abort(p) ==
    [p EXCEPT !.warned = p.warned + 1, !.k = Len(PlacingOrder(p)) + 1,
              !.attempt = 0]

\* "if not sector_placed": the warning is printed and the loop goes on with
\* the next requested drone
SkippedDrone(p) ==
    [p EXCEPT !.warned = p.warned + 1, !.k = p.k + 1, !.attempt = 0]

InitInit ==
    /\ \E level \in PlacementLevels :
         /\ ~initialize_game_raises(level.num_drones, level.num_drone_groups)
         /\ placing = StartPlacing(level)
         /\ session = StartedSession(level)
    /\ user = NewUser
    /\ level_stats = NoLevelStats
    /\ response = NoReply
    /\ drone = NoDrone
    /\ warnings = 0
    /\ trace = <<>>
    /\ script = 0
    /\ inflight = NoRequests
    /\ twin = NoTwin
    /\ objects = NoObjects
    /\ NoBoardGame

\* One iteration of "for attempt in range(100)"
Attempt ==
    /\ placing.pc = "placing"
    /\ placing.k <= Len(PlacingOrder(placing))
    /\ placing.attempt < PLACEMENT_ATTEMPTS
    /\ LET cands == OriginCandidates(PlacingGroup(placing),
                                     placing.level.grid_rows,
                                     placing.level.grid_cols)
       IN  IF cands = {}
           THEN placing' = FailedAttempt(placing)
           ELSE \E sector_origin \in cands :
                  placing' =
                      IF SectorAccepted(PlacingGroup(placing), sector_origin,
                                        placing.assigned_positions,
                                        placing.level.player_start_pos)
                      THEN PlacedDrone(placing, sector_origin)
                      ELSE FailedAttempt(placing)
    /\ UNCHANGED <<session, user, level_stats, response, drone, warnings, trace,
                   script, inflight, twin, objects,
                   new_version>>

\* The attempts of one drone are used up
GiveUp ==
    /\ placing.pc = "placing"
    /\ placing.k <= Len(PlacingOrder(placing))
    /\ placing.attempt = PLACEMENT_ATTEMPTS
    /\ placing' = SkippedDrone(placing)
    /\ UNCHANGED <<session, user, level_stats, response, drone, warnings, trace,
                   script, inflight, twin, objects,
                   new_version>>

\* initialize_game returns and initialize_web_game stores the game
StoreGame ==
    /\ placing.pc = "placing"
    /\ placing.k > Len(PlacingOrder(placing))
    /\ ~initialize_game_raises(placing.level.num_drones,
                               placing.level.num_drone_groups)
    /\ session' = initialize_web_game(session, placing.drones)
    /\ placing' = [placing EXCEPT !.pc = "stored"]
    /\ UNCHANGED <<user, level_stats, response, drone, warnings, trace, script,
                   inflight, twin, objects,
                   new_version>>

NextInit ==
    \/ Attempt
    \/ GiveUp
    \/ StoreGame

SpecInit == InitInit /\ [][NextInit]_vars

-----------------------------------------------------------------------------
(* initialize_game for level configurations with any number of drone groups *)

\* Levels with one, two and four drone groups, and one with five
ConfigLevels ==
    {[id |-> "8", grid_rows |-> 2, grid_cols |-> 3,
      player_start_pos |-> <<0, -1>>, end_pos |-> <<1, 2>>,
      num_drones |-> 1, num_drone_groups |-> 1, random_seed |-> "seed"],
     [id |-> "9", grid_rows |-> 3, grid_cols |-> 3,
      player_start_pos |-> <<0, 0>>, end_pos |-> <<2, 2>>,
      num_drones |-> 3, num_drone_groups |-> 2, random_seed |-> "seed"],
     [id |-> "10", grid_rows |-> 3, grid_cols |-> 3,
      player_start_pos |-> <<-1, 1>>, end_pos |-> <<2, 2>>,
      num_drones |-> 0, num_drone_groups |-> 4, random_seed |-> "seed"],
     LEVELS[2]}

InitConfig ==
    /\ \E level \in ConfigLevels :
         /\ placing = StartPlacing(level)
         /\ session = StartedSession(level)
    /\ user = NewUser
    /\ level_stats = NoLevelStats
    /\ response = NoReply
    /\ drone = NoDrone
    /\ warnings = 0
    /\ trace = <<>>
    /\ script = 0
    /\ inflight = NoRequests
    /\ twin = NoTwin
    /\ objects = NoObjects
    /\ NoBoardGame

\* The loop over the groups reaches a group for which drones_per_group has
\* no entry: drones_per_group[i] raises IndexError, initialize_web_game is
\* left before it writes to the session
RaiseIndexError ==
    /\ placing.pc = "placing"
    /\ placing.k > Len(PlacingOrder(placing))
    /\ initialize_game_raises(placing.level.num_drones,
                              placing.level.num_drone_groups)
    /\ placing' = [placing EXCEPT !.pc = "raised"]
    /\ UNCHANGED <<session, user, level_stats, response, drone, warnings, trace,
                   script, inflight, twin, objects,
                   new_version>>

NextConfig ==
    \/ NextInit
    \/ RaiseIndexError

SpecConfig == InitConfig /\ [][NextConfig]_vars

-----------------------------------------------------------------------------
(* Two /move requests of one session served at the same time.  The session  *)
(* interface loads the session file and login_required loads the User row   *)
(* when a request is received; the handler works on these copies and on the *)
(* UserLevelStats row it queries itself, and the session is saved when the  *)
(* response is sent.                                                        *)

\* The connections of the client, each with one request in flight at most
Requests == {1, 2}

\* A connection with no request on it that has sent n requests so far
IdleRequest(n) == [pc |-> "idle", move |-> "STAY", at |-> <<>>, served |-> n]

\* What a request finds stored when it is received
Stored == [session |-> session, user |-> user, level_stats |-> level_stats]

\* Level "2" is played: a start box above a 3x3 grid with one drone
InitOverlap ==
    /\ session \in GameSessions(2)
    /\ user = NewUser
    /\ level_stats = NoLevelStats
    /\ response = NoReply
    /\ drone = NoDrone
    /\ warnings = 0
    /\ trace = <<>>
    /\ script = 0
    /\ placing = NoPlacing
    /\ inflight = [r \in Requests |-> IdleRequest(0)]
    /\ twin = NoTwin
    /\ objects = NoObjects
    /\ NoBoardGame

\* Request r arrives with body {'move': m}: the session and the user row are
\* loaded
Receive(r, m) ==
    /\ inflight[r].pc = "idle"
    /\ inflight[r].served < MaxServed
    /\ inflight' = [inflight EXCEPT ![r] = [pc |-> "read", move |-> m,
                                           at |-> Stored,
                                           served |-> inflight[r].served + 1]]
    /\ UNCHANGED <<session, user, level_stats, response, drone, warnings, trace,
                   script, placing, twin, objects,
                   new_version>>

\* The handler of request r runs on the copies it loaded and its response is
\* sent: the rows update_user_stats changed are committed and the session
\* copy is saved.  A session copy the handler did not modify may or may not
\* be written back.
Respond(r) ==
    /\ inflight[r].pc = "read"
    /\ LET at == inflight[r].at
           out == move(at.session, at.user, level_stats, inflight[r].move)
       IN  /\ session' \in (IF out.session = at.session THEN {session} ELSE {})
                           \cup {out.session}
           /\ user' = IF out.user = at.user THEN user ELSE out.user
           /\ level_stats' = out.level_stats
           /\ response' = out.response
    /\ inflight' = [inflight EXCEPT ![r].pc = "done"]
    /\ UNCHANGED <<drone, warnings, trace, script, placing, twin, objects,
                   new_version>>

\* Both responses have arrived; the client sends further requests
NextRound ==
    /\ \A r \in Requests : inflight[r].pc = "done"
    /\ inflight' = [r \in Requests |-> IdleRequest(inflight[r].served)]
    /\ UNCHANGED <<session, user, level_stats, response, drone, warnings, trace,
                   script, placing, twin, objects,
                   new_version>>

NextOverlap ==
    \/ \E r \in Requests, m \in Moves : Receive(r, m)
    \/ \E r \in Requests : Respond(r)
    \/ NextRound

SpecOverlap == InitOverlap /\ [][NextOverlap]_vars

-----------------------------------------------------------------------------
(* Two games of one level played side by side by two users who send the     *)
(* same moves                                                                *)

\* The rows of the user who plays the second game: some games were played
OtherUser == [total_tries |-> 3, highest_level_completed |-> "2"]

OtherLevelStats ==
    [id \in LevelIds \cup {"unknown"} |->
        IF id \in {"1", "2"}
        THEN [exists |-> TRUE, tries |-> 1, completed |-> id = "2"]
        ELSE [exists |-> FALSE, tries |-> 0, completed |-> FALSE]]

\* The levels that configure a seed
SeededLevels == {i \in DOMAIN LEVELS : LEVELS[i].random_seed # "None"}

\* The second game is initialised from the level configuration of the first,
\* which has a seed: initialize_game runs again with the same seed
InitTwin ==
    /\ session \in UNION {GameSessions(i) : i \in SeededLevels}
    /\ user = NewUser
    /\ level_stats = NoLevelStats
    /\ response = NoReply
    /\ \E drones \in ReplayedDrones(session) :
         twin = [session |-> initialize_web_game(
                                 StartedSession(session.level_config), drones),
                 user |-> OtherUser,
                 level_stats |-> OtherLevelStats,
                 response |-> NoReply]
    /\ drone = NoDrone
    /\ warnings = 0
    /\ trace = <<>>
    /\ script = 0
    /\ placing = NoPlacing
    /\ inflight = NoRequests
    /\ objects = NoObjects
    /\ NoBoardGame

\* POST /move with body {'move': m} in both games
TwinMove(m) ==
    /\ Serve(move(session, user, level_stats, m))
    /\ twin' = move(twin.session, twin.user, twin.level_stats, m)
    /\ UNCHANGED <<drone, warnings, trace, script, placing, inflight, objects,
                   new_version>>

NextTwin == \E m \in Moves : TwinMove(m)

SpecTwin == InitTwin /\ [][NextTwin]_vars

-----------------------------------------------------------------------------
(* A game whose Drone objects are kept alive next to the session: move() is *)
(* called on them whenever /move advances the drones                         *)

\* The objects are the drones initialize_game returned for the game
InitObjects ==
    /\ \E i \in DOMAIN LEVELS :
         /\ ~initialize_game_raises(LEVELS[i].num_drones,
                                    LEVELS[i].num_drone_groups)
         /\ \E drones \in initialize_game(LEVELS[i]) :
              /\ session = initialize_web_game(StartedSession(LEVELS[i]), drones)
              /\ objects = drones
    /\ NoBoardGame
    /\ user = NewUser
    /\ level_stats = NoLevelStats
    /\ response = NoReply
    /\ drone = NoDrone
    /\ warnings = 0
    /\ trace = <<>>
    /\ script = 0
    /\ placing = NoPlacing
    /\ inflight = NoRequests
    /\ twin = NoTwin

\* POST /move with body {'move': m}; when the response reports drone moves,
\* move() is called once on each long-lived object
ObjectsMove(m) ==
    /\ Serve(move(session, user, level_stats, m))
    /\ objects' = IF "drone_moves" \in response'.keys
                  THEN [i \in DOMAIN objects |-> Drone_move(objects[i])]
                  ELSE objects
    /\ UNCHANGED <<drone, warnings, trace, script, placing, inflight, twin,
                   new_version>>

NextObjects == \E m \in Moves : ObjectsMove(m)

SpecObjects == InitObjects /\ [][NextObjects]_vars

-----------------------------------------------------------------------------
(* Vocabulary of the properties *)

\* The outcome of /move that a response body reports
Outcome(resp) ==
    IF resp.message \in {MSG_INVALID_FROM_START, MSG_INVALID_INTO_START,
                         MSG_OUT_OF_BOUNDS} /\ ~resp.game_over
    THEN "Rejected"
    ELSE IF resp.message = MSG_SUCCESS /\ ~resp.game_over THEN "Continuing"
    ELSE IF resp.game_over /\ "player_move" \notin resp.keys THEN "GameAlreadyOver"
    ELSE IF resp.message = MSG_CAUGHT /\ "drone_moves" \notin resp.keys
    THEN "CaughtBeforeDronesMove"
    ELSE IF resp.message = MSG_CAUGHT THEN "CaughtAfterDronesMove"
    ELSE IF resp.message = MSG_WON THEN "Won"
    ELSE IF resp.message = MSG_TIMEOUT THEN "TimedOut"
    ELSE "None"

\* The cell the player would enter by move m
Target(m) ==
    <<session.player_pos[1] + MoveDir(m)[1], session.player_pos[2] + MoveDir(m)[2]>>

\* Whether a cell is inside the grid of the session
InSessionGrid(pos) == InGrid(pos, session.grid_rows, session.grid_cols)

\* Whether some stored drone stands on a cell
DroneAt(drones, pos) == \E i \in DOMAIN drones : drones[i].position = pos

\* route_index, direction and position of every stored drone
DroneState(drones) ==
    [i \in DOMAIN drones |->
        <<drones[i].route_index, drones[i].direction, drones[i].position>>]

\* The stored drones after one advance of each
AdvancedDrones == SessionDrones(MoveDrones(ReconstructDrones(session)))

-----------------------------------------------------------------------------
(* Properties *)

\* C1 (collision ordering): in a game that is not over, a move whose target
\* cell is inside the grid and holds a drone ends the game as caught before
\* the drones move: no drone's route_index, direction or position changes and
\* the turn counter stays.
C1_CollisionOrdering ==
    [][\A m \in Moves :
        (/\ ~session.game_over
         /\ InSessionGrid(Target(m))
         /\ DroneAt(session.drones, Target(m))
         /\ Move(m))
        => (/\ session'.game_over
            /\ Outcome(response') = "CaughtBeforeDronesMove"
            /\ DroneState(session'.drones) = DroneState(session.drones)
            /\ session'.turn = session.turn)]_vars

\* C1 witness: a game ended by the first collision check after some turns
C1_Witness ==
    /\ Outcome(response) = "CaughtBeforeDronesMove"
    /\ session.game_over
    /\ session.turn > 0
    /\ DroneAt(session.drones, session.player_pos)

\* C2 (collision check #2): an accepted move that passes the first check and
\* after which an advanced drone stands on the player's cell ends the game as
\* caught, and the session stores the advanced drones.
C2_SecondCollisionCheck ==
    [][\A m \in Moves :
        (/\ ~session.game_over
         /\ Outcome(response') # "Rejected"
         /\ ~DroneAt(session.drones, Target(m))
         /\ DroneAt(AdvancedDrones, Target(m))
         /\ Move(m))
        => (/\ session'.game_over
            /\ session'.won = "False"
            /\ Outcome(response') = "CaughtAfterDronesMove"
            /\ session'.drones = AdvancedDrones)]_vars

\* C2 witness: a game ended by the second collision check
C2_Witness ==
    /\ Outcome(response) = "CaughtAfterDronesMove"
    /\ session.game_over
    /\ DroneAt(session.drones, session.player_pos)

\* C3 (rejection is idempotent): a rejected move leaves the turn counter, the
\* player position and every drone's position, route_index and direction
\* unchanged, and the same move sent again is rejected again.
C3_RejectionIdempotent ==
    [][\A m \in Moves :
        (Outcome(response') = "Rejected" /\ Move(m))
        => (/\ session'.turn = session.turn
            /\ session'.player_pos = session.player_pos
            /\ DroneState(session'.drones) = DroneState(session.drones)
            /\ LET again == move(session', user', level_stats', m)
               IN  /\ Outcome(again.response) = "Rejected"
                   /\ again.session = session')]_vars

\* C3 witness: a move was rejected in the middle of a game
C3_Witness ==
    /\ Outcome(response) = "Rejected"
    /\ session.turn > 0
    /\ session.player_pos # session.player_start_pos

\* C4 (goal precedence): when the drones have advanced and the player stands
\* on the goal cell with no drone on it, the outcome is Won, not Continuing.
C4_GoalPrecedence ==
    [][\A m \in Moves :
        (/\ ~session.game_over
         /\ "drone_moves" \in response'.keys
         /\ session'.player_pos = session.end_pos
         /\ ~DroneAt(session'.drones, session.end_pos)
         /\ Move(m))
        => (/\ Outcome(response') = "Won"
            /\ session'.game_over
            /\ session'.won = "True")]_vars

\* C4 witness: the player has reached the goal and won
C4_Witness ==
    /\ Outcome(response) = "Won"
    /\ session.player_pos = session.end_pos
    /\ session.won = "True"

C6_BoundaryRejection ==
    [][\A m \in Moves :
        (/\ ~session.game_over
         /\ InSessionGrid(session.player_pos)
         /\ ~InSessionGrid(Target(m))
         /\ Move(m))
        => (/\ Outcome(response') = "Rejected"
            /\ session' = [session EXCEPT !.message = session'.message]
            /\ \/ InSessionGrid(session'.player_pos)
               \/ session'.player_pos = session.player_start_pos)]_vars

\* C7 (start-box legality): on a start box outside the grid, the move that
\* enters the grid and STAY are accepted; each other direction is rejected
\* and changes neither the turn counter, the player nor the drones.
C7_StartBoxLegality ==
    [][\A m \in DOMAIN DIRECTIONS :
        (/\ ~session.game_over
         /\ session.player_pos = session.player_start_pos
         /\ ~InSessionGrid(session.player_start_pos)
         /\ Move(m))
        => IF m = "STAY" \/ InSessionGrid(Target(m))
           THEN Outcome(response') # "Rejected"
           ELSE /\ Outcome(response') = "Rejected"
                /\ session'.turn = session.turn
                /\ session'.player_pos = session.player_pos
                /\ session'.drones = session.drones]_vars

\* C8 (bounce symmetry): on a route of length L >= 2, 2*(L-1) calls of move()
\* take a drone at route_index 0 back to route_index 0, and index L-1 is
\* visited exactly once in between.
C8_BounceSymmetry ==
    LET L == drone.route_length
    IN  L >= 2 =>
        \A i \in DOMAIN trace :
            (trace[i] = 0 /\ i + 2 * (L - 1) <= Len(trace))
            => /\ trace[i + 2 * (L - 1)] = 0
               /\ Cardinality({j \in (i + 1)..(i + 2 * (L - 1)) : trace[j] = L - 1}) = 1

\* C8 witness: a drone on a route of 5 cells is back at index 0 after 8 calls
C8_Witness ==
    /\ drone.route_length = 5
    /\ Len(trace) = 2 * (5 - 1) + 1
    /\ trace[1] = 0
    /\ drone.route_index = 0

\* C9 (degenerate route): a drone on a route of length 1 never changes
\* position, route_index or direction, and over 10 calls of move() exactly
\* one warning is emitted.
C9_DegenerateRoute ==
    drone.route_length = 1
    => (/\ drone.position = drone.patrol_route[1]
        /\ drone.route_index = 0
        /\ drone.direction = 1
        /\ Len(trace) = 10 + 1 => warnings = 1)

\* The step is a request to /move
MoveStep == \E m \in Moves : Move(m)

\* C10 (turn counter): a move whose outcome is Continuing increments the turn
\* counter by exactly 1; a move with any other outcome leaves it unchanged.
\* (Stated as: a step that does otherwise is no move.)
C10_TurnCounter ==
    [][~(IF Outcome(response') = "Continuing"
         THEN session'.turn = session.turn + 1
         ELSE session'.turn = session.turn)
       => ~MoveStep]_vars

\* C10 as amended: a move whose outcome is Continuing or TimedOut increments
\* the turn counter by exactly 1; a move that is Rejected, caught before or
\* after the drones move, Won, or made after the game is over leaves it
\* unchanged.  (Stated as: a step that does otherwise is no move.)
C10_TurnCounterAmended ==
    [][~(IF Outcome(response') \in {"Continuing", "TimedOut"}
         THEN session'.turn = session.turn + 1
         ELSE session'.turn = session.turn)
       => ~MoveStep]_vars

\* C10 witness: the game timed out on the move that made the turn counter
\* reach max_turns
C10_Witness ==
    /\ Outcome(response) = "TimedOut"
    /\ session.game_over
    /\ session.turn = MAX_TURNS

\* An accepted move of a running game respects the turn limit: when it is
\* made at turn + 1 >= max_turns and neither a drone catches the player nor
\* the goal is reached, it times the game out; and it either ends the game or
\* counts as one more turn below max_turns.
TurnLimitRule ==
    IF session.game_over \/ Outcome(response') = "Rejected" THEN TRUE
    ELSE /\ (/\ session.turn + 1 >= session.max_turns
             /\ Outcome(response') \notin
                    {"CaughtBeforeDronesMove", "CaughtAfterDronesMove", "Won"})
            => (Outcome(response') = "TimedOut" /\ session'.game_over)
         /\ \/ session'.game_over
            \/ /\ session'.turn = session.turn + 1
               /\ session'.turn < session'.max_turns

\* C11 (turn limit): an accepted move made when turn + 1 >= max_turns that
\* causes no collision and does not reach the goal ends the game as TimedOut.
\* Every accepted move of a running game ends it or adds one to a turn counter
\* that stays below max_turns = 200, so no game holds more than 200 accepted
\* moves and a game whose moves keep being accepted becomes game_over.
C11_TurnLimit ==
    /\ [](session.max_turns = MAX_TURNS /\ session.turn <= session.max_turns)
    /\ [](~session.game_over => session.turn < session.max_turns)
    /\ [][~TurnLimitRule => ~MoveStep]_vars

\* C11 witness: the 200th accepted move of a game timed it out away from the
\* goal
C11_Witness ==
    /\ Outcome(response) = "TimedOut"
    /\ session.turn = session.max_turns
    /\ session.won = "False"
    /\ session.player_pos # session.end_pos
    /\ "drone_moves" \in response.keys

\* The stored drones after exactly one call of move() on each of them
OnceAdvanced ==
    [i \in DOMAIN session.drones |->
        LET d == Drone_move(ReconstructDrones(session)[i])
        IN  [session.drones[i] EXCEPT !.position = d.position,
                                      !.route_index = d.route_index,
                                      !.direction = d.direction]]

\* A move that gets past the first collision check advances each drone once
\* and reports one from/to entry per drone; any other move advances none.
DroneAdvanceRule ==
    IF Outcome(response') \in
           {"CaughtAfterDronesMove", "Won", "TimedOut", "Continuing"}
    THEN /\ session'.drones = OnceAdvanced
         /\ "drone_moves" \in response'.keys
         /\ response'.drone_moves =
                [i \in DOMAIN session.drones |->
                    [symbol |-> session.drones[i].symbol,
                     from |-> session.drones[i].position,
                     to |-> OnceAdvanced[i].position]]
    ELSE /\ session'.drones = session.drones
         /\ "drone_moves" \notin response'.keys
         /\ response'.drone_moves = <<>>

\* C12 (drones advance once): on every move that is accepted and not caught
\* by the first collision check, each drone is advanced exactly once and
\* drone_moves holds one from/to entry per drone; on a rejected move or a
\* catch by the first check no drone is advanced.
C12_DronesAdvanceOnce == [][~DroneAdvanceRule => ~MoveStep]_vars

\* C12 witness: a game with two drones went on after a move that displaced
\* both of them
C12_Witness ==
    /\ Outcome(response) = "Continuing"
    /\ Len(session.drones) = 2
    /\ Len(response.drone_moves) = 2
    /\ \A i \in 1..2 : /\ response.drone_moves[i].from # response.drone_moves[i].to
                       /\ response.drone_moves[i].to = session.drones[i].position

\* Each cell of a route is 4-adjacent or equal to its predecessor
StepwiseRoute(route) ==
    \A i \in 2..Len(route) :
        Abs(route[i][1] - route[i - 1][1]) + Abs(route[i][2] - route[i - 1][2]) <= 1

\* C13 (no illegal jumps): in the patrol route generated for every placed
\* drone, whatever its group, each cell is 4-adjacent or equal to its
\* predecessor in the route.
C13_NoIllegalJumps ==
    \A i \in DOMAIN session.drones :
        StepwiseRoute(ReconstructDrones(session)[i].patrol_route)

\* C14 (sector separation): whatever initialize_game returns, and at every
\* point of its placement loop, the sectors of any two placed drones are
\* disjoint and no sector holds a cell at Manhattan distance <= 1 from the
\* player start position.
C14_SectorSeparation ==
    LET drones == placing.drones
        start == placing.level.player_start_pos
    IN  /\ \A i, j \in DOMAIN drones :
               i # j => drones[i].sector \cap drones[j].sector = {}
        /\ \A i \in DOMAIN drones :
               \A pos \in drones[i].sector :
                   Abs(pos[1] - start[1]) + Abs(pos[2] - start[2]) > 1
        /\ placing.pc = "stored" =>
               /\ session.drones = SessionDrones(drones)
               /\ session.player_start_pos = start

\* C14 witness: initialize_game returned three drones of different groups,
\* one of them next to the exclusion zone of the player start
C14_Witness ==
    /\ placing.pc = "stored"
    /\ Len(session.drones) = 3
    /\ Cardinality({session.drones[i].symbol : i \in 1..3}) = 3
    /\ \E i \in 1..3 : \E pos \in placing.drones[i].sector :
           Abs(pos[1] - session.player_start_pos[1])
           + Abs(pos[2] - session.player_start_pos[2]) = 2

\* The route of a group laid out at an origin, without clamping
UnclampedRoute(group, sector_origin) ==
    [i \in DOMAIN group.patrol_route |->
        <<sector_origin[1] + group.patrol_route[i][1],
          sector_origin[2] + group.patrol_route[i][2]>>]

\* C15 (drones stay in their sectors): in every state of a game, every
\* drone's position is inside the grid and is a cell of the drone's own
\* sector; its route is non-empty, entirely in the grid and entirely inside
\* the sector, and no cell of it was clamped.
C15_DroneInSector ==
    \A i \in DOMAIN session.drones :
        LET d == ReconstructDrones(session)[i]
        IN  /\ InSessionGrid(d.position)
            /\ d.position \in d.sector
            /\ d.position = d.patrol_route[d.route_index + 1]
            /\ d.route_length >= 1
            /\ \A j \in DOMAIN d.patrol_route :
                   /\ InSessionGrid(d.patrol_route[j])
                   /\ d.patrol_route[j] \in d.sector
            /\ d.patrol_route = UnclampedRoute(GroupOf(d.symbol), d.sector_origin)

\* C15 witness: a drone of group T5 stands on the last cell of its route,
\* the one above the middle of its row, after several turns
C15_Witness ==
    /\ session.turn > 4
    /\ \E i \in DOMAIN session.drones :
           /\ session.drones[i].symbol = "T5"
           /\ session.drones[i].route_index = 3
           /\ session.drones[i].position[1] = session.drones[i].sector_origin[1]

\* The cells of S joined to the cells of R by chains of 4-adjacent cells of S
RECURSIVE Joined(_, _)
Joined(S, R) ==
    LET more == {c \in S \ R :
                    \E r \in R : Abs(c[1] - r[1]) + Abs(c[2] - r[2]) = 1}
    IN  IF more = {} THEN R ELSE Joined(S, R \cup more)

\* Any two cells of S are joined by a chain of 4-adjacent cells of S
FourConnected(S) == \A c \in S : Joined(S, {c}) = S

\* C16 (sectors are well formed): every sector produced by initialize_game
\* is non-empty, lies fully inside the grid and is internally 4-connected.
C16_SectorWellFormed ==
    \A i \in DOMAIN placing.drones :
        LET sector == placing.drones[i].sector
        IN  /\ sector # {}
            /\ \A pos \in sector :
                   InGrid(pos, placing.level.grid_rows, placing.level.grid_cols)
            /\ FourConnected(sector)

\* C16 witness: initialize_game returned a T5 drone whose sector touches the
\* last row and the last column of the grid
C16_Witness ==
    /\ placing.pc = "stored"
    /\ \E i \in DOMAIN placing.drones :
           /\ placing.drones[i].symbol = "T5"
           /\ Cardinality(placing.drones[i].sector) = 4
           /\ <<placing.level.grid_rows - 1, placing.level.grid_cols - 1>>
                  \in placing.drones[i].sector

\* What is left of the placement loop: the requested drones not yet dealt
\* with, each worth all its attempts, less the attempts already made
AttemptsLeft(p) ==
    (Len(PlacingOrder(p)) + 1 - p.k) * (PLACEMENT_ATTEMPTS + 1)
    + (PLACEMENT_ATTEMPTS - p.attempt)

\* A step of initialize_game is a failed attempt, a placement, the skip of a
\* drone whose 100 attempts all failed (after which the loop goes on with the
\* next requested drone), or the return of the drones placed
PlacementStepRule ==
    placing.pc = "placing" =>
        /\ \/ /\ placing.attempt < PLACEMENT_ATTEMPTS
              /\ placing' = [placing EXCEPT !.attempt = placing.attempt + 1]
           \/ /\ placing.attempt < PLACEMENT_ATTEMPTS
              /\ placing'.k = placing.k + 1
              /\ placing'.attempt = 0
              /\ placing'.warned = placing.warned
              /\ Len(placing'.drones) = Len(placing.drones) + 1
              /\ SubSeq(placing'.drones, 1, Len(placing.drones)) = placing.drones
           \/ /\ placing.attempt = PLACEMENT_ATTEMPTS
              /\ placing' = [placing EXCEPT !.k = placing.k + 1, !.attempt = 0,
                                            !.warned = placing.warned + 1]
           \/ /\ placing.k = Len(PlacingOrder(placing)) + 1
              /\ placing' = [placing EXCEPT !.pc = "stored"]
              /\ session'.initialized
              /\ session'.drones = SessionDrones(placing.drones)
        /\ placing'.pc = "placing" => AttemptsLeft(placing') < AttemptsLeft(placing)

MinSectorSize ==
    CHOOSE n \in {Len(GROUP_DEFINITIONS[g].sector_shape) :
                     g \in DOMAIN GROUP_DEFINITIONS} :
        \A g \in DOMAIN GROUP_DEFINITIONS :
            n <= Len(GROUP_DEFINITIONS[g].sector_shape)

\* The grid area is smaller than the minimum sector size times the number
\* of drones requested
GridTooSmall(level) ==
    level.grid_rows * level.grid_cols < MinSectorSize * level.num_drones

\* C18 (configuration error is fatal): when the grid area is smaller than
\* the minimum sector size times the requested number of drones, the
\* initialisation does not complete: no drones are returned and no game is
\* stored in the session.
C18_ConfigurationError ==
    GridTooSmall(placing.level) =>
        /\ placing.pc # "stored"
        /\ ~session.initialized

\* What is stored after the move of request a and then the move of request b
\* are executed one after the other on what both requests found stored
OneAfterTheOther(a, b) ==
    LET at == inflight[a].at
        first == move(at.session, at.user, at.level_stats, inflight[a].move)
        second == move(first.session, first.user, first.level_stats,
                       inflight[b].move)
    IN  [session |-> second.session, user |-> second.user,
         level_stats |-> second.level_stats]

\* C19 (one turn in flight per session): when two /move requests of one
\* session that were received on the same stored state have both been
\* answered, the session, the user row and the level rows are what executing
\* the two moves one after the other, in one order or the other, produces.
C19_OverlappingMoves ==
    (/\ \A r \in Requests : inflight[r].pc = "done"
     /\ inflight[1].at = inflight[2].at)
    => Stored \in {OneAfterTheOther(1, 2), OneAfterTheOther(2, 1)}

\* A response body without the statistics of the user
GameReply(resp) == [resp EXCEPT !.updated_stats = <<>>]

C21_CollisionBeforeGoal ==
    [][\A m \in Moves :
        (/\ ~session.game_over
         /\ Target(m) = session.end_pos
         /\ Outcome(response') # "Rejected"
         /\ \/ DroneAt(session.drones, Target(m))
            \/ DroneAt(OnceAdvanced, Target(m))
         /\ Move(m))
        => (/\ Outcome(response') \in
                   {"CaughtBeforeDronesMove", "CaughtAfterDronesMove"}
            /\ session'.game_over
            /\ session'.won = "False"
            /\ user'.highest_level_completed = user.highest_level_completed)]_vars

\* C21 witness: the player stepped onto the goal cell and was caught there
\* by a drone
C21_Witness ==
    /\ session.game_over
    /\ session.player_pos = session.end_pos
    /\ session.won = "False"
    /\ response.message = MSG_CAUGHT
    /\ "player_move" \in response.keys

\* C22 (goal before turn limit): the move made when turn + 1 >= max_turns
\* that takes the player onto the goal without a collision is Won, not
\* TimedOut; the turn counter is not incremented.
C22_GoalBeforeTurnLimit ==
    [][\A m \in Moves :
        (/\ ~session.game_over
         /\ session.turn + 1 >= session.max_turns
         /\ Target(m) = session.end_pos
         /\ Outcome(response') \notin
                {"Rejected", "CaughtBeforeDronesMove", "CaughtAfterDronesMove"}
         /\ Move(m))
        => (/\ Outcome(response') = "Won"
            /\ session'.game_over
            /\ session'.won = "True"
            /\ session'.turn = session.turn)]_vars

\* C22 witness: the goal was reached on the last turn the limit allows
C22_Witness ==
    /\ Outcome(response) = "Won"
    /\ session.turn + 1 = session.max_turns
    /\ session.player_pos = session.end_pos
    /\ session.won = "True"

\* The route length of the i-th stored drone
StoredRouteLength(i) == ReconstructDrones(session)[i].route_length

\* Every stored drone has its index inside its route, a direction of +1 or
\* -1, and stands on the route cell of its index
StoredDronesSound ==
    \A i \in DOMAIN session.drones :
        LET d == session.drones[i]
        IN  /\ 0 <= d.route_index
            /\ d.route_index < StoredRouteLength(i)
            /\ d.direction \in {1, -1}
            /\ d.position = ReconstructDrones(session)[i].patrol_route[d.route_index + 1]

\* A request leaves the index of a stored drone alone or changes it by
\* exactly 1, and from the last index of a route the drone goes back to the
\* one before it
BounceStepRule ==
    /\ DOMAIN session'.drones = DOMAIN session.drones
    /\ \A i \in DOMAIN session.drones :
           LET before == session.drones[i].route_index
               after == session'.drones[i].route_index
               L == StoredRouteLength(i)
           IN  \/ session'.drones[i] = session.drones[i]
               \/ /\ L >= 2
                  /\ Abs(after - before) = 1
                  /\ before = L - 1 => after = L - 2
                  /\ before = 0 => after = 1

\* C23 (route index, direction, position): in every session state each
\* stored drone satisfies 0 <= route_index < route length, its direction is
\* +1 or -1 and its position is patrol_route[route_index]; each /move changes
\* the route_index of a drone it advances by exactly 1 and never takes it
\* from the last index round to the first.
C23_RouteIndexSound ==
    /\ []StoredDronesSound
    /\ [][~BounceStepRule => ~MoveStep]_vars

\* C23 witness: a drone has turned round at the end of its route of five
\* cells and is on its way back
C23_Witness ==
    \E i \in DOMAIN session.drones :
        /\ StoredRouteLength(i) = 5
        /\ session.drones[i].direction = -1
        /\ session.drones[i].route_index = 3
        /\ session.turn > 4

\* C24 (a rejected move mutates nothing): every field of the session,
\* including the message and the game_over flag, is the same before and
\* after a rejected move.
C24_RejectionMutatesNothing ==
    [][\A m \in Moves :
        (Outcome(response') = "Rejected" /\ Move(m)) => session' = session]_vars

\* C25 (the session representation is faithful): the drones rebuilt from the
\* stored records are the long-lived drone objects of the game, patrol route
\* and sector included, on which move() was called once for every turn in
\* which the drones advanced; the stored records are those of the objects.
C25_FaithfulSession ==
    /\ ReconstructDrones(session) = objects
    /\ session.drones = SessionDrones(objects)
    /\ \A i \in DOMAIN objects :
           objects[i].patrol_route =
               Drone(GroupOf(objects[i].symbol), objects[i].sector_origin,
                     session.level_config.grid_rows,
                     session.level_config.grid_cols).patrol_route

\* C25 witness: after several turns two long-lived drones are on their way
\* back along their routes, and the session says the same
C25_Witness ==
    /\ Len(objects) = 2
    /\ session.turn > 4
    /\ \A i \in 1..2 : /\ objects[i].direction = -1
                       /\ session.drones[i].route_index = objects[i].route_index
                       /\ objects[i].route_index \in {1, 2}

\* The number of requested drones of each group that were dealt with,
\* placed or skipped, so far
AttemptedPerGroup(p) ==
    [g \in 1..p.level.num_drone_groups |->
        Cardinality({j \in 1..(p.k - 1) : PlacingOrder(p)[j] = g})]

\* C26 (any number of groups): for num_drone_groups from 1 to 5,
\* initialize_game does not raise, and when its loop is done it has attempted
\* exactly num_drones drones, of the first num_drone_groups groups only, with
\* per-group counts that differ by at most 1.
C26_AnyGroupCount ==
    placing.level.num_drone_groups \in 1..5 =>
        /\ placing.pc # "raised"
        /\ placing.k > Len(PlacingOrder(placing)) =>
               /\ placing.k - 1 = placing.level.num_drones
               /\ Len(placing.drones) + placing.warned = placing.level.num_drones
               /\ \A g, h \in 1..placing.level.num_drone_groups :
                      AttemptedPerGroup(placing)[g] - AttemptedPerGroup(placing)[h] <= 1

\* A request made when the game is over changes nothing of the game or of
\* the user's statistics and is answered as game over
AbsorbingRule ==
    session.game_over =>
        /\ session' = session
        /\ user' = user
        /\ level_stats' = level_stats
        /\ Outcome(response') = "GameAlreadyOver"
        /\ response'.message = session.message

\* C27 (game over is absorbing): once game_over is set, a move request,
\* whatever the move, leaves player position, drones, turn counter, message,
\* won flag and the user's try statistics unchanged.  (Stated as: a step that
\* does otherwise is no move.)
C27_GameOverAbsorbing == [][~AbsorbingRule => ~MoveStep]_vars

\* C27 witness: a move was sent after the player had been caught
C27_Witness ==
    /\ Outcome(response) = "GameAlreadyOver"
    /\ session.game_over
    /\ session.message = MSG_CAUGHT
    /\ user.total_tries = 1

\* C28 (no drone on the player while the game runs): in every state in which
\* game_over is false the player's position differs from the position of
\* every drone; hence a move that leaves the player where it is (STAY) is
\* never caught by the first collision check.
C28_PlayerApartFromDrones ==
    /\ [](~session.game_over => ~DroneAt(session.drones, session.player_pos))
    /\ [][(/\ Outcome(response') = "CaughtBeforeDronesMove"
           /\ session'.player_pos = session.player_pos)
          => ~MoveStep]_vars

\* C28 witness: the player stayed next to a drone and the game went on
C28_Witness ==
    /\ Outcome(response) = "Continuing"
    /\ ~session.game_over
    /\ response.player_move[1].from = response.player_move[1].to
    /\ InSessionGrid(session.player_pos)
    /\ \E i \in DOMAIN session.drones :
           Abs(session.drones[i].position[1] - session.player_pos[1])
           + Abs(session.drones[i].position[2] - session.player_pos[2]) = 1

\* The grid /game_state draws for the session
SessionGrid ==
    draw_grid(session.player_pos, session.end_pos, ReconstructDrones(session),
              session.grid_rows, session.grid_cols)

\* C29 (one drone per cell): in every state no two drones stand on the same
\* cell, each being inside its own sector and the sectors being disjoint, so
\* draw_grid never draws the multiple-drone marker.
C29_OneDronePerCell ==
    /\ \A i, j \in DOMAIN session.drones :
           i # j =>
               /\ session.drones[i].position # session.drones[j].position
               /\ ReconstructDrones(session)[i].sector
                      \cap ReconstructDrones(session)[j].sector = {}
    /\ \A pos \in DOMAIN SessionGrid : SessionGrid[pos] # "*"

\* C29 witness: in the course of a game two drones stand on neighbouring
\* cells and the grid shows both
C29_Witness ==
    /\ session.turn > 0
    /\ Len(session.drones) = 2
    /\ Abs(session.drones[1].position[1] - session.drones[2].position[1])
       + Abs(session.drones[1].position[2] - session.drones[2].position[2]) = 1
    /\ SessionGrid[session.drones[1].position] = session.drones[1].symbol
    /\ SessionGrid[session.drones[2].position] = session.drones[2].symbol

\* The bounce step on a pair <<route_index, direction>> of a route of L
\* cells: one step in the direction, turning round at either end
BounceStep(L, pair) ==
    IF L <= 1 THEN pair
    ELSE IF pair[1] + pair[2] >= L \/ pair[1] + pair[2] < 0
    THEN <<pair[1] - pair[2], -pair[2]>>
    ELSE <<pair[1] + pair[2], pair[2]>>

\* The bounce step applied n times to <<0, +1>>
RECURSIVE Bounced(_, _)
Bounced(L, n) == IF n = 0 THEN <<0, 1>> ELSE BounceStep(L, Bounced(L, n - 1))

\* C30 (drones follow the turn counter): in every state in which game_over
\* is false, route_index and direction of each drone are the result of
\* applying the bounce step to (0, +1) exactly turn times; hence drones whose
\* routes have the same length have the same route_index and direction.
C30_DronesFollowTurn ==
    ~session.game_over =>
        /\ \A i \in DOMAIN session.drones :
               <<session.drones[i].route_index, session.drones[i].direction>>
                   = Bounced(StoredRouteLength(i), session.turn)
        /\ \A i, j \in DOMAIN session.drones :
               StoredRouteLength(i) = StoredRouteLength(j) =>
                   /\ session.drones[i].route_index = session.drones[j].route_index
                   /\ session.drones[i].direction = session.drones[j].direction

\* C30 witness: a running game in its 11th turn with two drones on routes of
\* the same length, both on their way back at the same index
C30_Witness ==
    /\ ~session.game_over
    /\ session.turn = 11
    /\ Len(session.drones) = 2
    /\ StoredRouteLength(1) = StoredRouteLength(2)
    /\ session.drones[1].direction = -1
    /\ session.drones[1].route_index = session.drones[2].route_index
    /\ session.drones[1].position # session.drones[2].position

-----------------------------------------------------------------------------
(* A game that can be reset at any time, while it runs or after it ended.   *)
(* The session of the first initialisation is kept aside for comparison.    *)

\* The first initialisation of the game, as /game left it
FirstGame(sess) ==
    [session |-> sess, user |-> NewUser, level_stats |-> NoLevelStats,
     response |-> NoReply]

InitReplay ==
    /\ session \in UNION {GameSessions(i) : i \in DOMAIN LEVELS}
    /\ user = NewUser
    /\ level_stats = NoLevelStats
    /\ response = NoReply
    /\ twin = FirstGame(session)
    /\ drone = NoDrone
    /\ warnings = 0
    /\ trace = <<>>
    /\ script = 0
    /\ placing = NoPlacing
    /\ inflight = NoRequests
    /\ objects = NoObjects
    /\ NoBoardGame

\* POST /move with body {'move': m}; no further game is played once MaxTries
\* games have ended
ReplayMove(m) ==
    /\ user.total_tries < MaxTries \/ session.game_over
    /\ Serve(move(session, user, level_stats, m))
    /\ UNCHANGED <<drone, warnings, trace, script, placing, inflight, twin,
                   objects,
                   new_version>>

\* POST /reset, at any time
ReplayReset ==
    /\ \E drones \in ReplayedDrones(session) :
         Serve(reset(session, user, level_stats, drones))
    /\ UNCHANGED <<drone, warnings, trace, script, placing, inflight, twin,
                   objects,
                   new_version>>

\* GET /game_state: the grid is drawn from the session and nothing is written.
\* The state is queried in the first turns of a game and after its end.
GameState ==
    /\ session.turn < MaxQueryTurn \/ session.game_over
    /\ response' = Reply(session.message, session.game_over,
                         {"grid", "start_box", "turn", "player_pos", "drones"},
                         <<>>, <<>>, <<>>)
    /\ UNCHANGED <<session, user, level_stats, drone, warnings, trace, script,
                   placing, inflight, twin, objects,
                   new_version>>

NextReplay ==
    \/ \E m \in Moves : ReplayMove(m)
    \/ ReplayReset
    \/ GameState

SpecReplay == InitReplay /\ [][NextReplay]_vars

\* C31 (reset restores the initial state): with a seed in the level
\* configuration, /reset from any state of the game, running or over, leaves
\* the player on the start position, turn 0, game_over false, an empty
\* message, and the drones of the first initialisation: the same symbols and
\* sector origins, each at route index 0 with direction +1 on the first cell
\* of its route.  Apart from the won flag, which no handler reads, the session
\* is the one the first initialisation left.
C31_ResetRestores ==
    [][(session.level_config.random_seed # "None" /\ ReplayReset) =>
          /\ session'.player_pos = session.level_config.player_start_pos
          /\ session'.turn = 0
          /\ ~session'.game_over
          /\ session'.message = ""
          /\ session'.drones = twin.session.drones
          /\ \A i \in DOMAIN session'.drones :
                 /\ session'.drones[i].route_index = 0
                 /\ session'.drones[i].direction = 1
          /\ [session' EXCEPT !.won = "None"] = twin.session]_vars

\* C31 witness: a seeded game that was won after some turns has been reset and
\* is as the first initialisation left it
C31_Witness ==
    /\ session.level_config.random_seed # "None"
    /\ response.message = MSG_RESET
    /\ session.won = "True"
    /\ user.total_tries = 1
    /\ session.turn = 0 /\ ~session.game_over
    /\ session.drones = twin.session.drones
    /\ Len(session.drones) > 0

-----------------------------------------------------------------------------
(* The site: the level pages, /game, /game_state, /move and /reset served   *)
(* in any order for one session.  The game as it was last initialised is    *)
(* kept aside, so that the level it was initialised from is known.          *)

\* The levels that can be visited
SiteLevels == {3, 6}

\* A rendered page or a redirect carries no game reply
Page == NoReply

\* What initialize_game returns for the session's level configuration: the
\* drones of the last initialisation when that used the same seeded
\* configuration, any placement otherwise
SiteDrones(sess, last) ==
    IF sess.level_config = last.level_config
    THEN ReplayedDrones(sess)
    ELSE initialize_game(sess.level_config)

InitSite ==
    /\ session \in UNION {GameSessions(i) : i \in SiteLevels}
    /\ user = NewUser
    /\ level_stats = NoLevelStats
    /\ response = NoReply
    /\ twin = FirstGame(session)
    /\ drone = NoDrone
    /\ warnings = 0
    /\ trace = <<>>
    /\ script = 0
    /\ placing = NoPlacing
    /\ inflight = NoRequests
    /\ objects = NoObjects
    /\ NoBoardGame

\* GET /level_intro/<level_id>
LevelIntro(i) ==
    /\ user.total_tries < MaxTries
    /\ session' = [session EXCEPT !.level_config = LEVELS[i]]
    /\ response' = Page
    /\ UNCHANGED <<user, level_stats, drone, warnings, trace, script, placing,
                   inflight, twin, objects,
                   new_version>>

\* GET /start_game/<level_id>
StartGame(i) ==
    /\ user.total_tries < MaxTries
    /\ session' = [session EXCEPT !.level_config = LEVELS[i],
                                  !.level_id = LEVELS[i].id,
                                  !.initialized = FALSE]
    /\ response' = Page
    /\ UNCHANGED <<user, level_stats, drone, warnings, trace, script, placing,
                   inflight, twin, objects,
                   new_version>>

\* GET /game
Game ==
    /\ IF session.initialized
       THEN UNCHANGED <<session, twin>>
       ELSE \E drones \in SiteDrones(session, twin.session) :
                /\ session' = initialize_web_game(session, drones)
                /\ twin' = FirstGame(session')
    /\ response' = Page
    /\ UNCHANGED <<user, level_stats, drone, warnings, trace, script, placing,
                   inflight, objects,
                   new_version>>

\* POST /move with body {'move': m}; a game is played for MaxSiteTurn turns
\* at most, and no further game once MaxTries games have ended
SiteMove(m) ==
    /\ user.total_tries < MaxTries \/ session.game_over
    /\ session.turn < MaxSiteTurn
    /\ Serve(move(session, user, level_stats, m))
    /\ UNCHANGED <<drone, warnings, trace, script, placing, inflight, twin,
                   objects,
                   new_version>>

\* POST /reset
SiteReset ==
    /\ \E drones \in SiteDrones(session, twin.session) :
         /\ Serve(reset(session, user, level_stats, drones))
         /\ twin' = FirstGame(session')
    /\ UNCHANGED <<drone, warnings, trace, script, placing, inflight, objects,
                   new_version>>

NextSite ==
    \/ \E i \in SiteLevels : LevelIntro(i)
    \/ \E i \in SiteLevels : StartGame(i)
    \/ Game
    \/ GameState
    \/ \E m \in Moves : SiteMove(m)
    \/ SiteReset

SpecSite == InitSite /\ [][NextSite]_vars

\* The request just served ended the game
GameEnded == ~session.game_over /\ session'.game_over

\* C32 (try statistics count finished games): the user's total_tries and the
\* tries of the session's level each grow by exactly 1 in a request that ends
\* the game (caught, won or timed out); every other request - a continuing or
\* rejected move, a move after game over, /reset, /game_state - leaves
\* total_tries and the tries of every level as they were.
C32_TriesCountFinishedGames ==
    [][/\ user'.total_tries =
              user.total_tries + (IF GameEnded THEN 1 ELSE 0)
       /\ \A id \in LevelIds :
              level_stats'[id].tries =
                  level_stats[id].tries
                      + (IF GameEnded /\ id = session.level_id THEN 1 ELSE 0)]_vars

\* C32 witness: a game ran into the turn limit and was counted once; the
\* state was queried afterwards and the counts stayed
C32_Witness ==
    /\ session.game_over
    /\ session.turn = MAX_TURNS
    /\ "grid" \in response.keys
    /\ user.total_tries = 1
    /\ level_stats[session.level_id].tries = 1

\* C33 (outcomes are recorded under the level played): in a request that ends
\* a game, the session's level_id, under which update_user_stats records the
\* try and the completion, is the id of the level whose configuration the
\* game was initialised from, whatever the order of /level_intro,
\* /start_game, /game, /move and /reset requests before.
C33_RecordedUnderLevelPlayed ==
    [][GameEnded =>
          /\ session.level_id = twin.session.level_config.id
          /\ level_stats'[twin.session.level_config.id].tries =
                 level_stats[twin.session.level_config.id].tries + 1]_vars

\* C34 (move commands are case-insensitive): in every state of the game, the
\* player on the start position included, a command given in lower case gets
\* the same response and leaves the same session, user row and level rows as
\* the same command in upper case.
C34_CaseInsensitiveMoves ==
    \A m \in Moves :
        Upper(m) \in DOMAIN DIRECTIONS =>
            move(session, user, level_stats, m)
                = move(session, user, level_stats, Upper(m))

-----------------------------------------------------------------------------
(* get_positions_within_range, one iteration of its loop at a time *)

\* The subsets of S with n elements or fewer
RECURSIVE UpTo(_, _)
UpTo(S, n) ==
    IF n = 0 THEN {{}}
    ELSE LET smaller == UpTo(S, n - 1)
         IN  smaller \cup {T \cup {x} : T \in smaller, x \in S}

\* The boards a configuration can describe
Boards ==
    UNION {{create_board(w, h, impassable_nodes) :
               impassable_nodes \in UpTo((0 .. w - 1) \X (0 .. h - 1),
                                         MaxImpassable)} :
           w \in 1 .. MaxWidth, h \in 1 .. MaxHeight}

\* The prototype's other state plays no part in a search
InitRange ==
    /\ board \in Boards
    /\ \E position \in Nodes(board), max_range \in 0 .. MaxRange :
         search = StartSearch(position, max_range)
    /\ pieces = <<>>
    /\ returned = FALSE
    /\ recon_state = NewReconState
    /\ total_player1_pieces = 0
    /\ mover = 0
    /\ seen = {}
    /\ session = StartedSession(LEVELS[1])
    /\ user = NewUser
    /\ level_stats = NoLevelStats
    /\ response = NoReply
    /\ drone = NoDrone
    /\ warnings = 0
    /\ trace = <<>>
    /\ script = 0
    /\ placing = NoPlacing
    /\ inflight = NoRequests
    /\ twin = NoTwin
    /\ objects = NoObjects

\* while queue: one iteration
SearchStep ==
    /\ search.pc = "loop"
    /\ search.queue # <<>>
    /\ search' = SearchIteration(board, search)
    /\ UNCHANGED <<session, user, level_stats, response, drone, warnings,
                   trace, script, placing, inflight, twin, objects, board,
                   pieces, returned, recon_state, total_player1_pieces, mover,
                   seen>>

\* return positions
SearchReturn ==
    /\ search.pc = "loop"
    /\ search.queue = <<>>
    /\ search' = [search EXCEPT !.pc = "returned"]
    /\ UNCHANGED <<session, user, level_stats, response, drone, warnings,
                   trace, script, placing, inflight, twin, objects, board,
                   pieces, returned, recon_state, total_player1_pieces, mover,
                   seen>>

NextRange == SearchStep \/ SearchReturn

\* The loop is not suspended: while it can make a step it makes one
SpecRange == InitRange /\ [][NextRange]_vars /\ WF_vars(NextRange)

\* The board nodes other than position at shortest-path distance 1 .. r
WithinRange(b, position, r) ==
    {n \in Nodes(b) \ {position} :
        LET d == shortest_path_length(b, position, n)
        IN  d >= 1 /\ d <= r}

\* C35 (positions within range): get_positions_within_range(position, r)
\* terminates, and what it returns is exactly the set of board nodes other
\* than position whose shortest-path distance from position, in the graph in
\* which impassable nodes have no edges, is between 1 and r; for r = 0 that is
\* the empty set.
C35_PositionsWithinRange ==
    /\ <>(search.pc = "returned")
    /\ [](search.pc = "returned" =>
             /\ search.positions
                    = WithinRange(board, search.position, search.max_range)
             /\ search.max_range = 0 => search.positions = {})

\* C35 witness: a search returned a node that is two squares away but four
\* steps by the shortest path, round an impassable node
C35_Witness ==
    /\ search.pc = "returned"
    /\ search.position = <<0, 0>>
    /\ search.max_range = 4
    /\ board.impassable = {<<1, 0>>}
    /\ <<2, 0>> \in search.positions
    /\ shortest_path_length(board, <<0, 0>>, <<2, 0>>) = 4

-----------------------------------------------------------------------------
(* move_piece called on the pieces of a board, in any order *)

\* The pieces of the configuration, without their positions and ranges
PIECES ==
    << [owner |-> "Player1", piece_type |-> "Commander"],
       [owner |-> "Player2", piece_type |-> "Recon"] >>

\* create_pieces: a Piece for each entry of the configuration.  Nothing
\* compares the positions with the board.
create_pieces(positions, movement_ranges) ==
    [i \in DOMAIN PIECES |->
        [owner |-> PIECES[i].owner, piece_type |-> PIECES[i].piece_type,
         position |-> positions[i], movement_range |-> movement_ranges[i]]]

\* No two pieces share a square
Apart(ps) ==
    \A i, j \in DOMAIN ps : i # j => ps[i].position # ps[j].position

\* No piece stands on an impassable square
OnPassable(b, ps) == \A i \in DOMAIN ps : passable(b, ps[i].position)

\* The boards the pieces are moved on: one impassable node at most
PieceBoards == {b \in Boards : Cardinality(b.impassable) <= 1}

\* A placement with distinct positions, on any squares of the board
InitPieces ==
    /\ board \in PieceBoards
    /\ \E positions \in [DOMAIN PIECES -> Nodes(board)],
          movement_ranges \in [DOMAIN PIECES -> 1 .. MaxMovement] :
         /\ pieces = create_pieces(positions, movement_ranges)
         /\ Apart(pieces)
    /\ returned = FALSE
    /\ search = [StartSearch(<<0, 0>>, 0) EXCEPT !.pc = "idle"]
    /\ recon_state = NewReconState
    /\ total_player1_pieces = 0
    /\ mover = 0
    /\ seen = {}
    /\ session = StartedSession(LEVELS[1])
    /\ user = NewUser
    /\ level_stats = NoLevelStats
    /\ response = NoReply
    /\ drone = NoDrone
    /\ warnings = 0
    /\ trace = <<>>
    /\ script = 0
    /\ placing = NoPlacing
    /\ inflight = NoRequests
    /\ twin = NoTwin
    /\ objects = NoObjects

\* move_piece(pieces[i], target_position)
MovePiece(i, target_position) ==
    /\ \E call \in {move_piece(board, pieces, i, target_position)} :
         /\ pieces' = call.pieces
         /\ returned' = call.returned
    /\ UNCHANGED <<session, user, level_stats, response, drone, warnings,
                   trace, script, placing, inflight, twin, objects, board,
                   search, recon_state, total_player1_pieces, mover, seen>>

NextPieces ==
    \E i \in DOMAIN PIECES, target_position \in Nodes(board) :
        MovePiece(i, target_position)

SpecPieces == InitPieces /\ [][NextPieces]_vars

\* The target can be moved to: passable, unoccupied, and a shortest path of
\* at most movement_range steps leads to it
CanMoveTo(i, target_position) ==
    /\ passable(board, target_position)
    /\ ~is_position_occupied(pieces, target_position)
    /\ shortest_path_length(board, pieces[i].position, target_position)
           \in 0 .. pieces[i].movement_range

\* What every move_piece call that can be made now does: the piece is on the
\* target and the call returns True when the target can be moved to;
\* otherwise the call returns False and every piece is where it was
MovePieceRule ==
    \A i \in DOMAIN PIECES, target_position \in Nodes(board) :
        move_piece(board, pieces, i, target_position) =
            IF CanMoveTo(i, target_position)
            THEN [pieces |-> [pieces EXCEPT ![i].position = target_position],
                  returned |-> TRUE]
            ELSE [pieces |-> pieces, returned |-> FALSE]

\* C36 as stated (move_piece keeps the pieces apart and on passable squares):
\* a call moves the piece only when the target is passable, unoccupied and
\* within movement_range by a shortest path, and otherwise returns False with
\* every piece unchanged; and after any sequence of calls from a placement
\* with distinct positions no two pieces share a square and no piece stands on
\* an impassable square.
C36_MovePieceInvariants ==
    /\ MovePieceRule
    /\ Apart(pieces)
    /\ OnPassable(board, pieces)

\* C36 amended: as above, from a placement with distinct positions on
\* passable squares; a piece placed on an impassable square stays there.
C36_MovePieceInvariantsAmended ==
    /\ [](MovePieceRule /\ Apart(pieces))
    /\ [][/\ OnPassable(board, pieces) => OnPassable(board', pieces')
          /\ \A i \in DOMAIN PIECES :
                 ~passable(board, pieces[i].position) =>
                     pieces'[i].position = pieces[i].position]_vars

\* C36 witness: a piece has just moved next to the other piece, which stands
\* beyond an impassable square, on a board where every piece is on a passable
\* square
C36_Witness ==
    /\ returned
    /\ board.impassable = {<<1, 0>>}
    /\ board.width = 3 /\ board.height = 2
    /\ pieces[1].position = <<0, 0>>
    /\ pieces[2].position = <<0, 1>>
    /\ pieces[1].movement_range = 1
    /\ OnPassable(board, pieces)

-----------------------------------------------------------------------------
(* The Recon of Player2 looking for the pieces of Player1: game_loop gives  *)
(* every piece its turn, the user's pieces first                            *)

\* Unsighted turns after which the Recon gives a search area up
SEARCH_ATTEMPTS == 5

\* The pieces of the game: two pieces of the user and the Recon.  No piece
\* can attack, so that no piece is ever removed.
RECON_PIECES ==
    << [owner |-> "Player1", piece_type |-> "Scout", movement_range |-> 1,
        visibility_range |-> 0],
       [owner |-> "Player1", piece_type |-> "Scout", movement_range |-> 1,
        visibility_range |-> 0],
       [owner |-> "Player2", piece_type |-> "Recon", movement_range |-> 1,
        visibility_range |-> 1] >>

\* The board of the game: five squares round an impassable one
RECON_BOARD == create_board(3, 2, {<<1, 0>>})

\* The indices of the user's pieces in the list
Player1(ps) == {i \in DOMAIN ps : ps[i].owner = "Player1"}

\* get_user_move, 'm': the squares highlighted as possible moves
possible_moves(b, ps, i) ==
    {n \in get_positions_within_range(b, ps[i].position, ps[i].movement_range) :
        ~is_position_occupied(ps, n)}

\* get_ai_move for the Recon, up to its state transitions: recon_state after
\* the sighting
ReconSighting(b, ps, i, rs, total) ==
    LET positions_in_visibility ==
            get_positions_within_range(b, ps[i].position, ps[i].visibility_range)
        visible(p) == p.owner = "Player1" /\ p.position \in positions_in_visibility
        visible_player1 == SelectSeq(ps, visible)
        discovered == rs.discovered_player1_positions
                          \cup {visible_player1[k].position :
                                   k \in DOMAIN visible_player1}
        all_discovered == Cardinality(discovered) = total
        noted == [rs EXCEPT !.discovered_player1_positions = discovered]
    IN  IF visible_player1 # <<>> /\ ~all_discovered
        THEN IF rs.search_mode # "search_area"
             THEN [noted EXCEPT !.search_center = visible_player1[1].position,
                                !.search_mode = "search_area",
                                !.search_attempts = 0]
             ELSE noted
        ELSE IF all_discovered
        THEN [noted EXCEPT !.search_mode = "monitor"]
        ELSE IF rs.search_mode = "search_area"
        THEN IF rs.search_attempts + 1 > SEARCH_ATTEMPTS
             THEN [noted EXCEPT !.search_mode = "explore",
                                !.search_center = "None",
                                !.search_attempts = 0]
             ELSE [noted EXCEPT !.search_attempts = @ + 1]
        ELSE noted

\* move_towards(piece, target_position): the lists of pieces it can leave,
\* one for each shortest path nx.shortest_path can return
move_towards(b, ps, i, target_position) ==
    LET length == shortest_path_length(b, ps[i].position, target_position)
        first_steps == {n \in Range(neighbors(b, ps[i].position)) :
                           shortest_path_length(b, n, target_position)
                               = length - 1}
    IN  IF length <= 0 THEN {ps}
        ELSE {IF passable(b, n) /\ ~is_position_occupied(ps, n)
              THEN move_piece(b, ps, i, n).pieces
              ELSE ps : n \in first_steps}

\* random_move(piece): the lists of pieces it can leave
random_move(b, ps, i) ==
    LET free == {n \in Range(neighbors(b, ps[i].position)) :
                    passable(b, n) /\ ~is_position_occupied(ps, n)}
    IN  IF free = {} THEN {ps}
        ELSE {move_piece(b, ps, i, n).pieces : n \in free}

\* find_unvisited_passable_node(piece): the nodes it can return
find_unvisited_passable_node(b, rs) ==
    {pos \in Nodes(b) : passable(b, pos) /\ pos \notin rs.visited_positions}

\* find_unvisited_near_center(center, piece): the nodes it can return, those
\* its breadth-first search from center reaches first
find_unvisited_near_center(b, center, piece, rs) ==
    LET wanted == {pos \in Nodes(b) :
                      /\ passable(b, pos)
                      /\ pos \notin rs.visited_positions
                      /\ pos # piece.position
                      /\ shortest_path_length(b, center, pos)
                             \in 0 .. piece.visibility_range * 2}
    IN  {pos \in wanted :
            \A other \in wanted :
                shortest_path_length(b, center, pos)
                    <= shortest_path_length(b, center, other)}

\* get_ai_move for the Recon, its behaviours: the lists of pieces the move of
\* the Recon can leave, rs being recon_state after the sighting
ReconBehaviour(b, ps, i, rs, total) ==
    LET all_discovered ==
            Cardinality(rs.discovered_player1_positions) = total
        near == find_unvisited_near_center(b, rs.search_center, ps[i], rs)
        unvisited == find_unvisited_passable_node(b, rs)
    IN  IF rs.search_mode = "monitor" /\ all_discovered
        THEN UNION {IF ps[i].position
                          \in get_positions_within_range(b, target,
                                                         ps[i].visibility_range)
                    THEN random_move(b, ps, i)
                    ELSE move_towards(b, ps, i, target) :
                    target \in rs.discovered_player1_positions}
        ELSE IF rs.search_mode = "search_area" /\ rs.search_center # "None"
        THEN IF near # {}
             THEN UNION {move_towards(b, ps, i, target) : target \in near}
             ELSE random_move(b, ps, i)
        ELSE IF unvisited # {}
        THEN UNION {move_towards(b, ps, i, target) : target \in unvisited}
        ELSE random_move(b, ps, i)

\* The next piece of game_loop's round
NextMover(ps, i) == IF i = Len(ps) THEN 1 ELSE i + 1

\* The pieces stand on distinct squares when the module loads
InitRecon ==
    /\ board = RECON_BOARD
    /\ \E positions \in [DOMAIN RECON_PIECES -> Nodes(board)] :
         /\ pieces = [i \in DOMAIN RECON_PIECES |->
                         [owner |-> RECON_PIECES[i].owner,
                          piece_type |-> RECON_PIECES[i].piece_type,
                          position |-> positions[i],
                          movement_range |-> RECON_PIECES[i].movement_range,
                          visibility_range |-> RECON_PIECES[i].visibility_range]]
         /\ Apart(pieces)
    /\ total_player1_pieces =
           Cardinality({pieces[i].position : i \in Player1(pieces)})
    /\ recon_state = NewReconState
    /\ mover = 1
    /\ seen = {}
    /\ returned = FALSE
    /\ search = [StartSearch(<<0, 0>>, 0) EXCEPT !.pc = "idle"]
    /\ session = StartedSession(LEVELS[1])
    /\ user = NewUser
    /\ level_stats = NoLevelStats
    /\ response = NoReply
    /\ drone = NoDrone
    /\ warnings = 0
    /\ trace = <<>>
    /\ script = 0
    /\ placing = NoPlacing
    /\ inflight = NoRequests
    /\ twin = NoTwin
    /\ objects = NoObjects

\* get_user_move: the user presses 'm' and clicks a highlighted square
UserMove(target_position) ==
    /\ pieces[mover].owner = "Player1"
    /\ target_position \in possible_moves(board, pieces, mover)
    /\ pieces' = move_piece(board, pieces, mover, target_position).pieces
    /\ mover' = NextMover(pieces, mover)
    /\ UNCHANGED <<session, user, level_stats, response, drone, warnings,
                   trace, script, placing, inflight, twin, objects, board,
                   search, returned, recon_state, total_player1_pieces, seen>>

\* get_user_move: the user presses 'a'; the piece cannot attack and its turn
\* ends
UserPass ==
    /\ pieces[mover].owner = "Player1"
    /\ mover' = NextMover(pieces, mover)
    /\ UNCHANGED <<session, user, level_stats, response, drone, warnings,
                   trace, script, placing, inflight, twin, objects, board,
                   pieces, search, returned, recon_state, total_player1_pieces,
                   seen>>

\* The Player1 pieces in the visibility of piece i
InVisibility(b, ps, i) ==
    {j \in Player1(ps) :
        ps[j].position \in get_positions_within_range(b, ps[i].position,
                                                      ps[i].visibility_range)}

\* get_ai_move(piece) for the Recon; resolve_attacks, which ends the round,
\* finds no piece that can attack
ReconTurn ==
    /\ pieces[mover].piece_type = "Recon"
    /\ \E rs \in {ReconSighting(board, pieces, mover, recon_state,
                                total_player1_pieces)} :
         \E ps \in ReconBehaviour(board, pieces, mover, rs,
                                  total_player1_pieces) :
            /\ pieces' = ps
            /\ recon_state' =
                   [rs EXCEPT !.visited_positions = @ \cup {ps[mover].position}]
    /\ seen' = seen \cup InVisibility(board, pieces, mover)
    /\ mover' = NextMover(pieces, mover)
    /\ UNCHANGED <<session, user, level_stats, response, drone, warnings,
                   trace, script, placing, inflight, twin, objects, board,
                   search, returned, total_player1_pieces>>

NextRecon ==
    \/ \E target_position \in Nodes(board) : UserMove(target_position)
    \/ UserPass
    \/ ReconTurn

SpecRecon == InitRecon /\ [][NextRecon]_vars

\* Monitor mode goes with having seen every piece of the user
MonitorRule ==
    recon_state.search_mode = "monitor" <=> seen = Player1(pieces)

\* A Recon turn in search_area mode with no piece of the user visible counts
\* an attempt, and the one after SEARCH_ATTEMPTS of them gives the area up
GiveUpRule ==
    (/\ pieces[mover].piece_type = "Recon"
     /\ recon_state.search_mode = "search_area"
     /\ InVisibility(board, pieces, mover) = {}
     /\ ReconTurn) =>
        IF recon_state.search_attempts >= SEARCH_ATTEMPTS
        THEN /\ recon_state'.search_mode = "explore"
             /\ recon_state'.search_center = "None"
             /\ recon_state'.search_attempts = 0
        ELSE /\ recon_state'.search_mode = "search_area"
             /\ recon_state'.search_attempts = recon_state.search_attempts + 1

\* C37 (Recon mode machine): search_mode is 'monitor' when, and only when,
\* every Player1 piece has been seen by the Recon, whatever moves the Player1
\* pieces make between sightings; and in 'search_area' mode the Recon turn
\* that follows more than 5 turns with no Player1 piece visible reverts to
\* 'explore' with search_center cleared and search_attempts reset to 0.
C37_ReconModeMachine ==
    /\ []MonitorRule
    /\ [][GiveUpRule]_vars

=============================================================================
